---- MODULE Spec2Model ----
(***************************************************************************)
(* Model of the Twitter list categorization pipeline of jarvis-rss:        *)
(* src/src/twitter.ts (fetch, classify, cache load/save, merge, feed       *)
(* generation) and the orchestrating script scripts/classify-twitter.ts    *)
(* (src/unnamed/part_008).                                                 *)
(*                                                                         *)
(* Time is counted in seconds since an arbitrary epoch; JavaScript reads   *)
(* the clock in milliseconds, the model only needs that the clock is       *)
(* monotone and can advance between two reads.  In the pipeline timestamps *)
(* are kept as numbers: the ISO-8601 strings of the program are parsed     *)
(* with new Date(...) wherever they are compared.  In the feed generators, *)
(* which split and compare the strings themselves, they are sequences of   *)
(* characters.  The process is assumed to run in a time zone without       *)
(* daylight saving, so that Date.setDate(-30) is exactly 30 * 24 hours.    *)
(***************************************************************************)
EXTENDS Integers, Sequences, FiniteSets, TLC

VARIABLES
    now,             \* the wall clock
    file,            \* data/classified-tweets.json, the durable History Store
    active,          \* the processes that cron or the operator may start
    pc,              \* per process: position of main()
    tokenSet,        \* per process: READWISE_TOKEN present in the environment
    apiKeySet,       \* per process: ANTHROPIC_API_KEY present in the environment
    existingTweets,  \* per process: main's existingTweets
    documents,       \* per process: main's documents
    parsedTweets,    \* per process: main's parsedTweets
    newTweets,       \* per process: main's newTweets / classifyTweets' tweets
    batchStart,      \* per process: classifyTweets' loop variable i (0-based)
    classified,      \* per process: classifyTweets' classified / main's classifiedNew
    allTweets,       \* per process: main's allTweets
    exitCode,        \* per process: exit status of the last finished run (-1: none)
    answers,         \* per process: what each call answered when classifyTweets
                     \* is called on its own, outside a run of main (history)
    trace,           \* per process: what the current run has done (history)
    everStored,      \* the ids of the posts a save has written so far (history)
    mA, mB,          \* merge harness: the two arguments of mergeTweets
    mOnce, mTwice,   \* merge harness: merge(A,B) and merge(merge(A,B),B)
    mStep,           \* merge harness: number of applications done
    rPosts, rScope,  \* render harness: the posts and the scope given to render
    rFirst, rSecond, \* render harness: the documents of two successive renders
    rStep,           \* render harness: number of renders done
    xDoc,            \* extract harness: the digest given to parseTweetsFromDocument
    xFirst, xSecond, \* extract harness: the posts of two successive extractions
    xStep            \* extract harness: number of extractions done

vars == <<now, file, active, pc, tokenSet, apiKeySet, existingTweets, documents,
          parsedTweets, newTweets, batchStart, classified, allTweets, exitCode,
          answers, trace, everStored, mA, mB, mOnce, mTwice, mStep,
          rPosts, rScope, rFirst, rSecond, rStep, xDoc, xFirst, xSecond, xStep>>

pipeVars == <<now, file, active, pc, tokenSet, apiKeySet, existingTweets,
              documents, parsedTweets, newTweets, batchStart, classified,
              allTweets, exitCode, answers, trace, everStored>>

mergeVars == <<mA, mB, mOnce, mTwice, mStep>>

renderVars == <<rPosts, rScope, rFirst, rSecond, rStep>>

extractVars == <<xDoc, xFirst, xSecond, xStep>>

harnessVars == <<mA, mB, mOnce, mTwice, mStep, rPosts, rScope, rFirst, rSecond, rStep,
                 xDoc, xFirst, xSecond, xStep>>

----------------------------------------------------------------------------
(* Program constants *)

MAX_AGE_DAYS == 30

BATCH_SIZE == 10

CATEGORIES == <<"AI/ML", "Funny", "Other">>

(* Model bounds *)

SecondsPerDay == 86400

MaxSlack == 1          \* width of the two windows of clock values

MaxResults == 2        \* items in one response of the digest API

MaxMergeLen == 2       \* length of the arguments in the merge harness

MaxClassifyLen == 12   \* posts given to classifyTweets in the classify harness

MaxAge == MAX_AGE_DAYS * SecondsPerDay

(* what the clock can advance between the two readings of saveCache *)
SaveElapsed == {0, 1}

(* the instants the clock is observed at: around the epoch and around the
   moment a post of the epoch reaches the retention age *)
ClockValues == (0..MaxSlack) \cup (MaxAge..(MaxAge + MaxSlack))

Procs == {"p1", "p2"}

Ids == {1, 2}

----------------------------------------------------------------------------
(* Sequence helpers *)

Range(s) == {s[k] : k \in DOMAIN s}

SeqsUpTo(S, n) == UNION {[1..k -> S] : k \in 0..n}

CategorySet == Range(CATEGORIES)

(* String.prototype.trim on a sequence of tokens, " " standing for white space *)
RECURSIVE TrimLeft(_)
TrimLeft(line) ==
    IF line # <<>> /\ Head(line) = " " THEN TrimLeft(Tail(line)) ELSE line

RECURSIVE TrimRight(_)
TrimRight(line) ==
    IF line # <<>> /\ line[Len(line)] = " "
    THEN TrimRight(SubSeq(line, 1, Len(line) - 1)) ELSE line

Trim(line) == TrimRight(TrimLeft(line))

(* A Tweet (interface Tweet); category "" stands for the absent optional field. *)
MkTweet(id, date, cat) ==
    [id |-> id, author |-> "Author", handle |-> "handle", content |-> "text",
     url |-> "status", publishedAt |-> date, category |-> cat]

----------------------------------------------------------------------------
(* mergeTweets: a Map keyed by id, in insertion order, then a stable sort. *)

HasId(m, id) == \E k \in DOMAIN m : m[k].id = id

(* Map.prototype.set: a present key keeps its position and gets the new value. *)
MapSet(m, t) ==
    IF HasId(m, t.id)
    THEN [k \in DOMAIN m |-> IF m[k].id = t.id THEN t ELSE m[k]]
    ELSE Append(m, t)

RECURSIVE SetAll(_, _)
SetAll(m, s) == IF s = <<>> THEN m ELSE SetAll(MapSet(m, Head(s)), Tail(s))

(* a merge in which an incoming post replaces the stored one *)
SetNewOverwrites(m, s) == SetAll(m, s)

RECURSIVE SetNew(_, _)
SetNew(m, s) ==
    IF s = <<>> THEN m
    ELSE SetNew(IF HasId(m, Head(s).id) THEN m ELSE MapSet(m, Head(s)), Tail(s))

(* the comparator with its operands exchanged: oldest first *)
ByPublishedAsc(a, b) == a.publishedAt - b.publishedAt

(* The comparator of the sort: negative when a is to come before b. *)
ByPublishedDesc(a, b) == b.publishedAt - a.publishedAt

(* Array.prototype.sort is stable: an element goes after every element that
   does not compare greater than it. *)
RECURSIVE InsertSorted(_, _)
InsertSorted(s, t) ==
    IF s = <<>> THEN <<t>>
    ELSE IF ByPublishedDesc(Head(s), t) <= 0
         THEN <<Head(s)>> \o InsertSorted(Tail(s), t)
         ELSE <<t>> \o s

RECURSIVE SortTweets(_)
SortTweets(s) ==
    IF s = <<>> THEN <<>>
    ELSE InsertSorted(SortTweets(SubSeq(s, 1, Len(s) - 1)), s[Len(s)])

(* a merge that forgets to deduplicate the incoming posts *)
MergeTweetsNoDedup(existing, incoming) ==
    SortTweets(SetAll(<<>>, existing) \o incoming)

MergeTweets(existing, incoming) ==
    SortTweets(SetNew(SetAll(<<>>, existing), incoming))

----------------------------------------------------------------------------
(* Merge harness: mergeTweets applied to arbitrary bounded arguments. *)

MergePool == {MkTweet(id, d, c) : id \in Ids, d \in {0, 1}, c \in {"AI/ML", "Other"}}

ApplyMerge ==
    /\ mStep = 0
    /\ mOnce' = MergeTweets(mA, mB)
    /\ mStep' = 1
    /\ UNCHANGED <<mA, mB, mTwice>>
    /\ UNCHANGED pipeVars
    /\ UNCHANGED renderVars
    /\ UNCHANGED extractVars

ApplyMergeAgain ==
    /\ mStep = 1
    /\ mTwice' = MergeTweets(mOnce, mB)
    /\ mStep' = 2
    /\ UNCHANGED <<mA, mB, mOnce>>
    /\ UNCHANGED pipeVars
    /\ UNCHANGED renderVars
    /\ UNCHANGED extractVars

----------------------------------------------------------------------------
(* The digest source: what the Readwise list API can answer. *)

(* published_date is optional; the digests of World below all carry one *)
NoDate == [present |-> FALSE, value |-> 0]

Dated(d) == [present |-> TRUE, value |-> d]

(* An <article class="rw-embedded-tweet"> fragment is the sequence of the
   elements inside it.  Text is a sequence of tokens: "a" a visible character,
   " " a white space character, "<>" an inline tag.  An anchor has the href
   https://<host>.com/<first>[/<seg>/<num>]; seg = "" is an href that ends
   after its first path segment.  The other elements are the paragraph of
   class tweet-text ("p"), the div of class tweet-content ("div"), script,
   style, and text outside any of them ("text"). *)
Anchor(host, first, seg, num, body) ==
    [kind |-> "a", host |-> host, first |-> first, seg |-> seg, num |-> num,
     body |-> body]

Block(kind, body) ==
    [kind |-> kind, host |-> "", first |-> "", seg |-> "", num |-> 0, body |-> body]

(* the url of a fragment in which no permalink is found: the empty string *)
NoUrl == [host |-> "", first |-> "", seg |-> "", num |-> 0]

Href(e) == [host |-> e.host, first |-> e.first, seg |-> e.seg, num |-> e.num]

(* String.prototype.toLowerCase on the path segments the model has *)
Lower(str) == IF str = "STATUS" THEN "status" ELSE str

(* String.prototype.match without the g flag stops at the first match: of
   the indices of the elements a regular expression matches, the least, and 0
   when it matches none *)
FirstMatch(ks) == IF ks = {} THEN 0 ELSE CHOOSE k \in ks : \A j \in ks : k <= j

(* /<a[^>]*href="https:\/\/twitter\.com\/[^"]*"[^>]*>([^<]+)<\/a>/i *)
AuthorPattern(e) ==
    /\ e.kind = "a"
    /\ e.host = "twitter"
    /\ e.body # <<>>
    /\ \A k \in DOMAIN e.body : e.body[k] # "<>"

(* /href="https:\/\/twitter\.com\/([^/"\s]+)/i *)
HandlePattern(e) == e.kind = "a" /\ e.host = "twitter" /\ e.first # ""

(* /href="(https:\/\/(?:twitter|x)\.com\/[^"]+\/status\/\d+)"/i *)
UrlPattern(e) ==
    /\ e.kind = "a"
    /\ e.host \in {"twitter", "x"}
    /\ e.first # ""
    /\ Lower(e.seg) = "status"

(* url.match(/status\/(\d+)/): this pattern has no i flag *)
IdPattern(url) == url.seg = "status"

HandlePool == <<"ada", "bob", "unknown">>

(* `${handle}-${Date.now()}`.  Ids are strings in the program; the model
   writes the id "42" as 42 and the composite of handle and clock reading,
   which is never all digits, as a negative number *)
FallbackId(handle, clock) ==
    0 - (1 + Len(HandlePool) * clock
           + (CHOOSE h \in DOMAIN HandlePool : HandlePool[h] = handle) - 1)

(* .replace(/<[^>]+>/g, " ") *)
StripTags(text) == [k \in DOMAIN text |-> IF text[k] = "<>" THEN " " ELSE text[k]]

(* .replace(/\s+/g, " "): every run of white space becomes one space, so a
   white space character that follows another one goes *)
NormalizeSpace(text) ==
    LET kept == SelectSeq([k \in DOMAIN text |-> k],
                          LAMBDA k : ~(k > 1 /\ text[k] = " " /\ text[k - 1] = " "))
    IN  [i \in DOMAIN kept |-> text[kept[i]]]

(* tags stripped, white space normalized, trimmed *)
CleanText(text) == Trim(NormalizeSpace(StripTags(text)))

(* the text a content pattern captures: the body of the first element of the
   kind, <<>> when there is none or when it captures the empty string *)
Captured(frag, kind) ==
    LET k == FirstMatch({j \in DOMAIN frag : frag[j].kind = kind})
    IN  IF k = 0 THEN <<>> ELSE frag[k].body

(* The third pattern, /<\/a>\s*<\/div>([\s\S]*?)<\/article>/i, never matches:
   the fragment is what tweetRegex captured lazily before the first
   </article>, so it holds no </article> itself. *)
ContentCaptures(frag) == <<Captured(frag, "p"), Captured(frag, "div"), <<>>>>

MinContent == 10

MaxContent == 500

(* the loop over contentPatterns, from the pattern at position k on; content
   is the value the variable has so far *)
RECURSIVE ContentFrom(_, _, _)
ContentFrom(captures, k, content) ==
    IF k > Len(captures) THEN content
    ELSE IF captures[k] # <<>>
         THEN LET cleaned == CleanText(captures[k])
              IN  IF Len(cleaned) > MinContent THEN cleaned
                  ELSE ContentFrom(captures, k + 1, cleaned)
         ELSE ContentFrom(captures, k + 1, content)

(* the fragment as text: every element stands between its tags, script and
   style elements are removed with what they hold *)
RECURSIVE ArticleHtml(_)
ArticleHtml(frag) ==
    IF frag = <<>> THEN <<>>
    ELSE LET e == Head(frag)
         IN  (IF e.kind \in {"script", "style"} THEN <<>>
              ELSE IF e.kind = "text" THEN e.body
              ELSE <<"<>">> \o e.body \o <<"<>">>) \o ArticleHtml(Tail(frag))

(* the fallback: all the visible text of the fragment *)
VisibleText(frag) == CleanText(ArticleHtml(frag))

(* s.slice(0, n) *)
Slice(s, n) == SubSeq(s, 1, IF Len(s) < n THEN Len(s) ELSE n)

(* a pass that pushes every fragment with a permalink, with or without text *)
ParseArticleKeepsEmpty(frag, digestDate, clock) ==
    LET authorAt == FirstMatch({k \in DOMAIN frag : AuthorPattern(frag[k])})
        author == IF authorAt = 0 THEN <<"Unknown">> ELSE Trim(frag[authorAt].body)
        handleAt == FirstMatch({k \in DOMAIN frag : HandlePattern(frag[k])})
        handle == IF handleAt = 0 THEN "unknown" ELSE frag[handleAt].first
        urlAt == FirstMatch({k \in DOMAIN frag : UrlPattern(frag[k])})
        url == IF urlAt = 0 THEN NoUrl ELSE Href(frag[urlAt])
        id == IF IdPattern(url) THEN url.num ELSE FallbackId(handle, clock)
        matched == ContentFrom(ContentCaptures(frag), 1, <<>>)
        content == IF matched = <<>> \/ Len(matched) < MinContent
                   THEN VisibleText(frag) ELSE matched
    IN  IF url # NoUrl
        THEN <<[id |-> id, author |-> author, handle |-> handle,
                content |-> Slice(content, MaxContent), url |-> url,
                publishedAt |-> digestDate, category |-> ""]>>
        ELSE <<>>

(* one pass of the loop over the fragments: the post that is pushed, as a
   sequence of one post, or nothing *)
ParseArticle(frag, digestDate, clock) ==
    LET authorAt == FirstMatch({k \in DOMAIN frag : AuthorPattern(frag[k])})
        author == IF authorAt = 0 THEN <<"Unknown">> ELSE Trim(frag[authorAt].body)
        handleAt == FirstMatch({k \in DOMAIN frag : HandlePattern(frag[k])})
        handle == IF handleAt = 0 THEN "unknown" ELSE frag[handleAt].first
        urlAt == FirstMatch({k \in DOMAIN frag : UrlPattern(frag[k])})
        url == IF urlAt = 0 THEN NoUrl ELSE Href(frag[urlAt])
        id == IF IdPattern(url) THEN url.num ELSE FallbackId(handle, clock)
        matched == ContentFrom(ContentCaptures(frag), 1, <<>>)
        content == IF matched = <<>> \/ Len(matched) < MinContent
                   THEN VisibleText(frag) ELSE matched
    IN  IF content # <<>> /\ url # NoUrl
        THEN <<[id |-> id, author |-> author, handle |-> handle,
                content |-> Slice(content, MaxContent), url |-> url,
                publishedAt |-> digestDate, category |-> ""]>>
        ELSE <<>>

(* the name of the account, as the profile link shows it *)
Name == <<"A">>

(* a fragment with a profile link, a permalink and a short text *)
Article(id) ==
    <<Anchor("twitter", "ada", "", 0, Name),
      Anchor("twitter", "ada", "status", id, <<>>),
      Block("p", <<"a">>)>>

(* a fragment whose permalink has its path in capitals *)
CapitalArticle(id) ==
    <<Anchor("twitter", "ada", "", 0, Name),
      Anchor("twitter", "ada", "STATUS", id, <<>>),
      Block("p", <<"a">>)>>

(* a promoted fragment: no permalink *)
PromotedArticle == <<Anchor("twitter", "ada", "", 0, Name), Block("p", <<"a">>)>>

Item(titleOk, html, date, arts) ==
    [titleOk |-> titleOk, html |-> html, published_date |-> date, articles |-> arts]

World ==
    { Item(TRUE, TRUE, Dated(0), <<Article(1)>>),
      Item(TRUE, TRUE, Dated(1), <<Article(2), PromotedArticle, Article(1)>>),
      Item(TRUE, TRUE, Dated(1), <<PromotedArticle>>),
      Item(FALSE, TRUE, Dated(1), <<Article(1)>>),
      Item(TRUE, FALSE, Dated(1), <<>>) }

(* a digest source whose digests hold a permalink in capitals *)
CapitalWorld ==
    { Item(TRUE, TRUE, Dated(1), <<Article(1), CapitalArticle(3)>>),
      Item(FALSE, TRUE, Dated(1), <<Article(1)>>) }

(* what the digest source serves to each of two overlapping runs: a new
   digest has come in between the two requests *)
OverlapWorld(r) ==
    { Item(TRUE, TRUE, Dated(MaxAge), <<Article(IF r = "p1" THEN 1 ELSE 2)>>) }

FetchErrors == {"http_error", "network_error", "bad_json"}

(* fetchReadwiseDigests' filter on title prefix and html_content *)
IsDigest(item) == item.titleOk /\ item.html

RECURSIVE FilterDigests(_)
FilterDigests(results) ==
    IF results = <<>> THEN <<>>
    ELSE IF IsDigest(Head(results))
         THEN <<Head(results)>> \o FilterDigests(Tail(results))
         ELSE FilterDigests(Tail(results))

(* parseTweetsFromDocument; clock is the value new Date() and Date.now() give
   during the call *)
RECURSIVE ParseArticles(_, _, _)
ParseArticles(arts, digestDate, clock) ==
    IF arts = <<>> THEN <<>>
    ELSE ParseArticle(Head(arts), digestDate, clock)
             \o ParseArticles(Tail(arts), digestDate, clock)

(* an extractor that stamps every post with the time of the extraction *)
ParseTweetsStampsAll(doc, clock) == ParseArticles(doc.articles, clock, clock)

ParseTweetsFromDocument(doc, clock) ==
    ParseArticles(doc.articles,
                  IF doc.published_date.present THEN doc.published_date.value
                  ELSE clock,
                  clock)

RECURSIVE ParseAll(_, _)
ParseAll(docs, clock) ==
    IF docs = <<>> THEN <<>>
    ELSE ParseTweetsFromDocument(Head(docs), clock) \o ParseAll(Tail(docs), clock)

IdsOf(s) == {s[k].id : k \in DOMAIN s}

(* a filter that lets every parsed post through *)
NotInKeepsAll(s, ids) == s

(* parsedTweets.filter((t) => !existingIds.has(t.id)) *)
RECURSIVE NotIn(_, _)
NotIn(s, ids) ==
    IF s = <<>> THEN <<>>
    ELSE IF Head(s).id \in ids THEN NotIn(Tail(s), ids)
         ELSE <<Head(s)>> \o NotIn(Tail(s), ids)

----------------------------------------------------------------------------
(* The classifier's answer.  A line of the response text is a sequence of
   tokens, " " standing for white space. *)

LinesPool ==
    { <<"AI/ML">>, <<" ", "Funny", " ">>, <<"Other">>, <<" ">>, <<"Sports">> }

EmptyLine == <<>>

Cycle(p, k) == [j \in 1..k |-> p[((j - 1) % Len(p)) + 1]]

RespLens(n) == {k \in {1, n - 1, n, n + 1} : k >= 1}

(* the lines of an answer repeat one line or alternate between two *)
Patterns == {<<a>> : a \in LinesPool} \cup {<<a, b>> : a \in LinesPool, b \in LinesPool}

(* A text answer for a batch of n posts: too short, exact, or too long *)
Responses(n) ==
    {Cycle(p, k) : p \in Patterns, k \in RespLens(n)} \cup {<<EmptyLine>>}

(* what client.messages.create can do for a batch of n posts *)
Outcomes(n) ==
    {[kind |-> "throw", isText |-> FALSE, lines |-> <<EmptyLine>>],
     [kind |-> "message", isText |-> FALSE, lines |-> <<EmptyLine>>]}
        \cup {[kind |-> "message", isText |-> TRUE, lines |-> l] : l \in Responses(n)}

RECURSIVE NonEmptyLines(_)
NonEmptyLines(lines) ==
    IF lines = <<>> THEN <<>>
    ELSE IF Len(Trim(Head(lines))) > 0
         THEN <<Trim(Head(lines))>> \o NonEmptyLines(Tail(lines))
         ELSE NonEmptyLines(Tail(lines))

(* responseText.split("\n").map(trim).filter(length > 0) *)
ResponseCategories(msg) ==
    NonEmptyLines(IF msg.isText THEN msg.lines ELSE <<EmptyLine>>)

(* the label taken as it comes, without the check against CATEGORIES *)
ValidCategoryUnchecked(name) == name[1]

(* CATEGORIES.includes(categoryName) ? categoryName : "Other" *)
ValidCategory(name) ==
    IF Len(name) = 1 /\ name[1] \in CategorySet THEN name[1] ELSE "Other"

(* categories[j] || "Other", j counted from 1 *)
CategoryAt(categories, j) ==
    IF j <= Len(categories) THEN categories[j] ELSE <<"Other">>

WithCategory(t, cat) == [t EXCEPT !.category = cat]

(* a catch block that pushes nothing: the posts of a failed batch are lost *)
ClassifyBatchResultDropsFailed(batch, outcome) ==
    IF outcome.kind = "throw"
    THEN <<>>
    ELSE LET categories == ResponseCategories(outcome)
         IN  [j \in DOMAIN batch |->
                 WithCategory(batch[j], ValidCategory(CategoryAt(categories, j)))]

(* a catch block that pushes the posts of a failed batch without a category *)
ClassifyBatchResultUnlabelled(batch, outcome) ==
    IF outcome.kind = "throw"
    THEN batch
    ELSE LET categories == ResponseCategories(outcome)
         IN  [j \in DOMAIN batch |->
                 WithCategory(batch[j], ValidCategory(CategoryAt(categories, j)))]

(* the posts one pass of the batch loop pushes onto classified *)
ClassifyBatchResult(batch, outcome) ==
    IF outcome.kind = "throw"
    THEN [j \in DOMAIN batch |-> WithCategory(batch[j], "Other")]
    ELSE LET categories == ResponseCategories(outcome)
         IN  [j \in DOMAIN batch |->
                 WithCategory(batch[j], ValidCategory(CategoryAt(categories, j)))]

Min(a, b) == IF a < b THEN a ELSE b

(* a slice without its end: the call is given all the posts that are left *)
BatchAtWholeRest(tweets, i) == SubSeq(tweets, i + 1, Len(tweets))

(* tweets.slice(i, i + BATCH_SIZE) *)
BatchAt(tweets, i) == SubSeq(tweets, i + 1, Min(i + BATCH_SIZE, Len(tweets)))

----------------------------------------------------------------------------
(* The cache file *)

AbsentFile == [exists |-> FALSE, parses |-> FALSE, updatedAt |-> 0, tweets |-> <<>>]

EmptyFile == [exists |-> TRUE, parses |-> TRUE, updatedAt |-> 0, tweets |-> <<>>]

(* loadCache followed by main's  cache?.tweets || []  *)
LoadedTweets(f) == IF f.exists /\ f.parses THEN f.tweets ELSE <<>>

RECURSIVE Recent(_, _)
Recent(tweets, cutoff) ==
    IF tweets = <<>> THEN <<>>
    ELSE IF Head(tweets).publishedAt >= cutoff
         THEN <<Head(tweets)>> \o Recent(Tail(tweets), cutoff)
         ELSE Recent(Tail(tweets), cutoff)

(* saveCache's data: clock0 and clock1 are the two readings of new Date() *)
CacheData(tweets, clock0, clock1) ==
    [exists |-> TRUE, parses |-> TRUE, updatedAt |-> clock1,
     tweets |-> Recent(tweets, clock0 - MaxAge)]

(* a write that was cut short leaves a file JSON.parse rejects *)
TornFile == [exists |-> TRUE, parses |-> FALSE, updatedAt |-> 0, tweets |-> <<>>]

----------------------------------------------------------------------------
(* The run: main() of scripts/classify-twitter.ts, one action per step.  A
   process that has ended has no local state left: its variables are reset,
   and only exitCode and trace tell what the run did. *)

Running == {"fetching", "awaiting_digests", "extracting", "deduplicating",
            "classify_enter", "classify_batch", "awaiting_answer", "merging",
            "saving"}

Stopped == {"idle", "done", "failed", "killed"}

(* stopDocs and stopNew are the digests and the new posts of a run that was
   stopped between mergeTweets and saveCache; prevDocs and prevNew are those of
   the run before the current one, kept while the current run may be given
   the same digests and until it has its own new posts and enters
   classifyTweets *)
NoTrace ==
    [start |-> AbsentFile, fetches |-> 0, parsed |-> 0, fresh |-> 0, calls |-> 0,
     thrown |-> 0, merges |-> 0, writes |-> 0, failedAt |-> "", early |-> "",
     stopDocs |-> <<>>, stopNew |-> <<>>, prevDocs |-> <<>>, prevNew |-> <<>>]

(* history: process r has written the file *)
Written(r, failure) ==
    [trace EXCEPT ![r] = [@ EXCEPT !.writes = @ + 1, !.failedAt = failure]]

(* the process ends with the given status *)
Ends(r, how, status) ==
    /\ pc' = [pc EXCEPT ![r] = how]
    /\ exitCode' = [exitCode EXCEPT ![r] = status]
    /\ existingTweets' = [existingTweets EXCEPT ![r] = <<>>]
    /\ documents' = [documents EXCEPT ![r] = <<>>]
    /\ parsedTweets' = [parsedTweets EXCEPT ![r] = <<>>]
    /\ newTweets' = [newTweets EXCEPT ![r] = <<>>]
    /\ batchStart' = [batchStart EXCEPT ![r] = 0]
    /\ classified' = [classified EXCEPT ![r] = <<>>]
    /\ allTweets' = [allTweets EXCEPT ![r] = <<>>]
    /\ answers' = [answers EXCEPT ![r] = <<>>]

(* main returns: status 0 *)
Return(r) == Ends(r, "done", 0)

(* process.exit(1), from a catch of main or from main().catch *)
Exit1(r) == Ends(r, "failed", 1)

(* a run that starts from an empty list whatever the file holds *)
LoadIgnoresFile(r) ==
    /\ r \in active
    /\ pc[r] \in Stopped
    /\ existingTweets' = [existingTweets EXCEPT ![r] = <<>>]
    /\ tokenSet' = [tokenSet EXCEPT ![r] = FALSE]
    /\ apiKeySet' = [apiKeySet EXCEPT ![r] = FALSE]
    /\ exitCode' = [exitCode EXCEPT ![r] = -1]
    /\ trace' = [trace EXCEPT ![r] =
                     [NoTrace EXCEPT !.start = file,
                                     !.prevDocs = trace[r].stopDocs,
                                     !.prevNew = trace[r].stopNew]]
    /\ pc' = [pc EXCEPT ![r] = "fetching"]
    /\ UNCHANGED <<now, file, active, everStored, documents, parsedTweets, newTweets,
                   batchStart, classified, allTweets, answers>>
    /\ UNCHANGED harnessVars

(* a load without the existence test and the try: a file that is absent or
   cannot be read or parsed makes the run fail *)
LoadRaises(r) ==
    /\ r \in active
    /\ pc[r] \in Stopped
    /\ existingTweets' = [existingTweets EXCEPT ![r] = LoadedTweets(file)]
    /\ tokenSet' = [tokenSet EXCEPT ![r] = FALSE]
    /\ apiKeySet' = [apiKeySet EXCEPT ![r] = FALSE]
    /\ IF file.exists /\ file.parses
       THEN /\ exitCode' = [exitCode EXCEPT ![r] = -1]
            /\ trace' = [trace EXCEPT ![r] = [NoTrace EXCEPT !.start = file]]
            /\ pc' = [pc EXCEPT ![r] = "fetching"]
       ELSE /\ exitCode' = [exitCode EXCEPT ![r] = 1]
            /\ trace' = [trace EXCEPT ![r] =
                             [NoTrace EXCEPT !.start = file, !.failedAt = "load"]]
            /\ pc' = [pc EXCEPT ![r] = "failed"]
    /\ UNCHANGED <<now, file, active, everStored, documents, parsedTweets, newTweets,
                   batchStart, classified, allTweets, answers>>
    /\ UNCHANGED harnessVars

(* A run starts and loads the cache. *)
Load(r) ==
    /\ r \in active
    /\ pc[r] \in Stopped
    /\ existingTweets' = [existingTweets EXCEPT ![r] = LoadedTweets(file)]
    /\ tokenSet' = [tokenSet EXCEPT ![r] = FALSE]
    /\ apiKeySet' = [apiKeySet EXCEPT ![r] = FALSE]
    /\ exitCode' = [exitCode EXCEPT ![r] = -1]
    /\ trace' = [trace EXCEPT ![r] =
                     [NoTrace EXCEPT !.start = file,
                                     !.prevDocs = trace[r].stopDocs,
                                     !.prevNew = trace[r].stopNew]]
    /\ pc' = [pc EXCEPT ![r] = "fetching"]
    /\ UNCHANGED <<now, file, active, everStored, documents, parsedTweets, newTweets,
                   batchStart, classified, allTweets, answers>>
    /\ UNCHANGED harnessVars

(* fetchReadwiseDigests throws before any request: READWISE_TOKEN is not set;
   main's catch ends the run with status 1 *)
FetchNoToken(r) ==
    /\ pc[r] = "fetching"
    /\ Exit1(r)
    /\ trace' = [trace EXCEPT ![r].failedAt = "fetch"]
    /\ UNCHANGED <<now, file, active, everStored, tokenSet, apiKeySet>>
    /\ UNCHANGED harnessVars

(* READWISE_TOKEN is set: fetchReadwiseDigests sends the request and awaits
   the response; the call carries no timeout and no abort signal *)
FetchRequest(r) ==
    /\ pc[r] = "fetching"
    /\ pc' = [pc EXCEPT ![r] = "awaiting_digests"]
    /\ tokenSet' = [tokenSet EXCEPT ![r] = TRUE]
    /\ trace' = [trace EXCEPT ![r].fetches = @ + 1]
    /\ UNCHANGED <<now, file, active, everStored, apiKeySet, existingTweets, documents,
                   parsedTweets, newTweets, batchStart, classified, allTweets,
                   exitCode, answers>>
    /\ UNCHANGED harnessVars

(* a catch that logs the failure and goes on with no documents *)
FetchFailSwallowed(r) ==
    /\ pc[r] = "awaiting_digests"
    /\ \E err \in FetchErrors :
          trace' = [trace EXCEPT ![r] =
                       [@ EXCEPT !.failedAt = "fetch", !.early = "no_digests"]]
    /\ Return(r)
    /\ UNCHANGED <<now, file, active, everStored, tokenSet, apiKeySet>>
    /\ UNCHANGED harnessVars

(* the request fails, answers non-OK, or its body is no JSON: main's catch
   ends the run with status 1 *)
FetchFail(r) ==
    /\ pc[r] = "awaiting_digests"
    /\ \E err \in FetchErrors :
          trace' = [trace EXCEPT ![r].failedAt = "fetch"]
    /\ Exit1(r)
    /\ UNCHANGED <<now, file, active, everStored, tokenSet, apiKeySet>>
    /\ UNCHANGED harnessVars

(* the request succeeds with items of the given source; no digest among the
   results ends the run *)
FetchOkFrom(r, source) ==
    /\ pc[r] = "awaiting_digests"
    /\ \E results \in SeqsUpTo(source, MaxResults) :
          LET digests == FilterDigests(results)
          IN  IF Len(digests) = 0
              THEN /\ Return(r)
                   /\ trace' = [trace EXCEPT ![r].early = "no_digests"]
              ELSE /\ documents' = [documents EXCEPT ![r] = digests]
                   /\ pc' = [pc EXCEPT ![r] = "extracting"]
                   /\ trace' = IF digests = trace[r].prevDocs THEN trace
                               ELSE [trace EXCEPT ![r] =
                                        [@ EXCEPT !.prevDocs = <<>>, !.prevNew = <<>>]]
                   /\ UNCHANGED <<exitCode, existingTweets, parsedTweets, newTweets,
                                  batchStart, classified, allTweets, answers>>
    /\ UNCHANGED <<now, file, active, everStored, tokenSet, apiKeySet>>
    /\ UNCHANGED harnessVars

(* every digest is parsed; no post at all ends the run *)
Extract(r) ==
    /\ pc[r] = "extracting"
    /\ LET parsed == ParseAll(documents[r], now)
       IN  IF Len(parsed) = 0
           THEN /\ Return(r)
                /\ trace' = [trace EXCEPT ![r].early = "no_tweets"]
           ELSE /\ parsedTweets' = [parsedTweets EXCEPT ![r] = parsed]
                /\ pc' = [pc EXCEPT ![r] = "deduplicating"]
                /\ trace' = [trace EXCEPT ![r].parsed = Len(parsed)]
                /\ UNCHANGED <<exitCode, existingTweets, documents, newTweets,
                               batchStart, classified, allTweets, answers>>
    /\ UNCHANGED <<now, file, active, everStored, tokenSet, apiKeySet>>
    /\ UNCHANGED harnessVars

(* a filter that reads the store again instead of using what the run loaded *)
DedupReloads(r) ==
    /\ pc[r] = "deduplicating"
    /\ existingTweets' = [existingTweets EXCEPT ![r] = LoadedTweets(file)]
    /\ LET fresh == NotIn(parsedTweets[r], IdsOf(LoadedTweets(file)))
       IN  IF Len(fresh) = 0
           THEN /\ pc' = [pc EXCEPT ![r] = "done"]
                /\ exitCode' = [exitCode EXCEPT ![r] = 0]
                /\ trace' = [trace EXCEPT ![r].early = "no_new"]
                /\ UNCHANGED newTweets
           ELSE /\ newTweets' = [newTweets EXCEPT ![r] = fresh]
                /\ pc' = [pc EXCEPT ![r] = "classify_enter"]
                /\ trace' = [trace EXCEPT ![r].fresh = Len(fresh)]
                /\ UNCHANGED exitCode
    /\ UNCHANGED <<documents, parsedTweets, batchStart, classified, allTweets, answers>>
    /\ UNCHANGED <<now, file, active, everStored, tokenSet, apiKeySet>>
    /\ UNCHANGED harnessVars

(* a filter that also drops an id the run has already seen in its digests *)
DedupDropsRepeats(r) ==
    /\ pc[r] = "deduplicating"
    /\ LET fresh == SetNew(<<>>, NotIn(parsedTweets[r], IdsOf(existingTweets[r])))
       IN  IF Len(fresh) = 0
           THEN /\ Return(r)
                /\ trace' = [trace EXCEPT ![r].early = "no_new"]
           ELSE /\ newTweets' = [newTweets EXCEPT ![r] = fresh]
                /\ pc' = [pc EXCEPT ![r] = "classify_enter"]
                /\ trace' = [trace EXCEPT ![r].fresh = Len(fresh)]
                /\ UNCHANGED <<exitCode, existingTweets, documents, parsedTweets,
                               batchStart, classified, allTweets, answers>>
    /\ UNCHANGED <<now, file, active, everStored, tokenSet, apiKeySet>>
    /\ UNCHANGED harnessVars

(* the filter without the return on an empty result *)
DedupNoShortCircuit(r) ==
    /\ pc[r] = "deduplicating"
    /\ LET fresh == NotIn(parsedTweets[r], IdsOf(existingTweets[r]))
       IN  /\ newTweets' = [newTweets EXCEPT ![r] = fresh]
           /\ trace' = [trace EXCEPT ![r].fresh = Len(fresh)]
    /\ pc' = [pc EXCEPT ![r] = "classify_enter"]
    /\ UNCHANGED <<exitCode, existingTweets, documents, parsedTweets,
                   batchStart, classified, allTweets, answers>>
    /\ UNCHANGED <<now, file, active, everStored, tokenSet, apiKeySet>>
    /\ UNCHANGED harnessVars

(* posts whose id is in the loaded cache are filtered out; none left ends the run *)
Dedup(r) ==
    /\ pc[r] = "deduplicating"
    /\ LET fresh == NotIn(parsedTweets[r], IdsOf(existingTweets[r]))
       IN  IF Len(fresh) = 0
           THEN /\ Return(r)
                /\ trace' = [trace EXCEPT ![r].early = "no_new"]
           ELSE /\ newTweets' = [newTweets EXCEPT ![r] = fresh]
                /\ pc' = [pc EXCEPT ![r] = "classify_enter"]
                /\ trace' = [trace EXCEPT ![r].fresh = Len(fresh)]
                /\ UNCHANGED <<exitCode, existingTweets, documents, parsedTweets,
                               batchStart, classified, allTweets, answers>>
    /\ UNCHANGED <<now, file, active, everStored, tokenSet, apiKeySet>>
    /\ UNCHANGED harnessVars

(* classifyTweets throws on entry: ANTHROPIC_API_KEY is not set; main's catch
   ends the run with status 1 *)
ClassifyNoKey(r) ==
    /\ pc[r] = "classify_enter"
    /\ Exit1(r)
    /\ trace' = [trace EXCEPT ![r].failedAt = "classify"]
    /\ UNCHANGED <<now, file, active, everStored, tokenSet, apiKeySet>>
    /\ UNCHANGED harnessVars

(* classifyTweets is entered with the key set: the batch loop starts *)
ClassifyEnter(r) ==
    /\ pc[r] = "classify_enter"
    /\ apiKeySet' = [apiKeySet EXCEPT ![r] = TRUE]
    /\ batchStart' = [batchStart EXCEPT ![r] = 0]
    /\ classified' = [classified EXCEPT ![r] = <<>>]
    /\ pc' = [pc EXCEPT ![r] =
                 IF 0 < Len(newTweets[r]) THEN "classify_batch" ELSE "merging"]
    /\ trace' = [trace EXCEPT ![r] = [@ EXCEPT !.prevDocs = <<>>, !.prevNew = <<>>]]
    /\ UNCHANGED <<now, file, active, everStored, tokenSet, existingTweets, documents,
                   parsedTweets, newTweets, allTweets, exitCode, answers>>
    /\ UNCHANGED harnessVars

(* a batch loop without the try: a thrown call leaves classifyTweets, and
   main's catch ends the run with status 1 *)
ClassifyBatchRaises(r) ==
    /\ pc[r] = "awaiting_answer"
    /\ LET batch == BatchAt(newTweets[r], batchStart[r])
       IN  \E outcome \in Outcomes(Len(batch)) :
              IF outcome.kind = "throw"
              THEN /\ Exit1(r)
                   /\ trace' = [trace EXCEPT ![r] =
                                   [@ EXCEPT !.calls = @ + 1, !.thrown = @ + 1,
                                             !.failedAt = "classify"]]
              ELSE /\ classified' = [classified EXCEPT ![r] =
                                        @ \o ClassifyBatchResult(batch, outcome)]
                   /\ answers' = [answers EXCEPT ![r] = IF r \in active THEN @
                                             ELSE Append(@, outcome)]
                   /\ trace' = [trace EXCEPT ![r].calls = @ + 1]
                   /\ batchStart' = [batchStart EXCEPT ![r] = @ + BATCH_SIZE]
                   /\ pc' = [pc EXCEPT ![r] =
                                IF batchStart[r] + BATCH_SIZE < Len(newTweets[r])
                                THEN "classify_batch" ELSE "merging"]
                   /\ UNCHANGED <<existingTweets, documents, parsedTweets,
                                  newTweets, allTweets, exitCode>>
    /\ UNCHANGED <<now, file, active, everStored, tokenSet, apiKeySet>>
    /\ UNCHANGED harnessVars

(* the batch loop goes on: the prompt of the next batch is sent with
   client.messages.create and the answer is awaited; the call is given no
   timeout *)
ClassifyRequest(r) ==
    /\ pc[r] = "classify_batch"
    /\ pc' = [pc EXCEPT ![r] = "awaiting_answer"]
    /\ UNCHANGED <<now, file, active, everStored, tokenSet, apiKeySet, existingTweets,
                   documents, parsedTweets, newTweets, batchStart, classified,
                   allTweets, exitCode, answers, trace>>
    /\ UNCHANGED harnessVars

(* a batch loop that saves the merged store after every batch *)
ClassifyBatchPersists(r) ==
    /\ pc[r] = "awaiting_answer"
    /\ LET batch == BatchAt(newTweets[r], batchStart[r])
       IN  \E outcome \in Outcomes(Len(batch)) :
              LET done == classified[r] \o ClassifyBatchResult(batch, outcome)
                  merged == MergeTweets(existingTweets[r], done)
              IN  /\ classified' = [classified EXCEPT ![r] = done]
                  /\ answers' = [answers EXCEPT ![r] = IF r \in active THEN @
                                             ELSE Append(@, outcome)]
                  /\ file' = CacheData(merged, now, now)
                  /\ everStored' = everStored \cup IdsOf(Recent(merged, now - MaxAge))
                  /\ trace' = [trace EXCEPT ![r] =
                                  [@ EXCEPT !.calls = @ + 1,
                                            !.writes = @ + 1,
                                            !.thrown = IF outcome.kind = "throw"
                                                       THEN @ + 1 ELSE @]]
    /\ batchStart' = [batchStart EXCEPT ![r] = @ + BATCH_SIZE]
    /\ pc' = [pc EXCEPT ![r] =
                 IF batchStart[r] + BATCH_SIZE < Len(newTweets[r])
                 THEN "classify_batch" ELSE "merging"]
    /\ UNCHANGED <<now, active, tokenSet, apiKeySet, existingTweets, documents,
                   parsedTweets, newTweets, allTweets, exitCode>>
    /\ UNCHANGED harnessVars

(* the call resolves or throws: the rest of the pass of the batch loop *)
ClassifyBatch(r) ==
    /\ pc[r] = "awaiting_answer"
    /\ LET batch == BatchAt(newTweets[r], batchStart[r])
       IN  \E outcome \in Outcomes(Len(batch)) :
              /\ classified' = [classified EXCEPT ![r] =
                                   @ \o ClassifyBatchResult(batch, outcome)]
              /\ answers' = [answers EXCEPT ![r] = IF r \in active THEN @
                                             ELSE Append(@, outcome)]
              /\ trace' = [trace EXCEPT ![r] =
                              [@ EXCEPT !.calls = @ + 1,
                                        !.thrown = IF outcome.kind = "throw"
                                                   THEN @ + 1 ELSE @]]
    /\ batchStart' = [batchStart EXCEPT ![r] = @ + BATCH_SIZE]
    /\ pc' = [pc EXCEPT ![r] =
                 IF batchStart[r] + BATCH_SIZE < Len(newTweets[r])
                 THEN "classify_batch" ELSE "merging"]
    /\ UNCHANGED <<now, file, active, everStored, tokenSet, apiKeySet, existingTweets, documents,
                   parsedTweets, newTweets, allTweets, exitCode>>
    /\ UNCHANGED harnessVars

(* a merge that is given the new posts only: save would get a delta *)
MergeForgetsExisting(r) ==
    /\ pc[r] = "merging"
    /\ allTweets' = [allTweets EXCEPT ![r] = MergeTweets(<<>>, classified[r])]
    /\ trace' = [trace EXCEPT ![r].merges = @ + 1]
    /\ answers' = [answers EXCEPT ![r] = <<>>]
    /\ pc' = [pc EXCEPT ![r] = "saving"]
    /\ UNCHANGED <<now, file, active, everStored, tokenSet, apiKeySet, existingTweets,
                   documents, parsedTweets, newTweets, batchStart, classified, exitCode>>
    /\ UNCHANGED harnessVars

(* main's  allTweets = mergeTweets(existingTweets, classifiedNew) *)
Merge(r) ==
    /\ pc[r] = "merging"
    /\ allTweets' = [allTweets EXCEPT ![r] =
                        MergeTweets(existingTweets[r], classified[r])]
    /\ trace' = [trace EXCEPT ![r].merges = @ + 1]
    /\ answers' = [answers EXCEPT ![r] = <<>>]
    /\ pc' = [pc EXCEPT ![r] = "saving"]
    /\ UNCHANGED <<now, file, active, everStored, tokenSet, apiKeySet, existingTweets, documents,
                   parsedTweets, newTweets, batchStart, classified, exitCode>>
    /\ UNCHANGED harnessVars

(* a save that reads the file again and merges what it holds into the write *)
SaveMergesWithFile(r) ==
    /\ pc[r] = "saving"
    /\ \E elapsed \in SaveElapsed :
          LET merged == MergeTweets(allTweets[r], LoadedTweets(file))
          IN  /\ now + elapsed \in ClockValues
              /\ now' = now + elapsed
              /\ file' = CacheData(merged, now, now + elapsed)
              /\ everStored' = everStored \cup IdsOf(Recent(merged, now - MaxAge))
    /\ Return(r)
    /\ trace' = Written(r, "")
    /\ UNCHANGED <<active, tokenSet, apiKeySet>>
    /\ UNCHANGED harnessVars

(* saveCache writes the file; main prints the statistics and returns *)
Save(r) ==
    /\ pc[r] = "saving"
    /\ \E elapsed \in SaveElapsed :
          /\ now + elapsed \in ClockValues
          /\ now' = now + elapsed
          /\ file' = CacheData(allTweets[r], now, now + elapsed)
          /\ everStored' = everStored \cup IdsOf(Recent(allTweets[r], now - MaxAge))
    /\ Return(r)
    /\ trace' = Written(r, "")
    /\ UNCHANGED <<active, tokenSet, apiKeySet>>
    /\ UNCHANGED harnessVars

(* a failed write that is retried from the merge instead of ending the run *)
SaveFailRemerges(r) ==
    /\ pc[r] = "saving"
    /\ \E torn \in BOOLEAN :
          /\ file' = IF torn THEN TornFile ELSE file
          /\ trace' = IF torn THEN Written(r, "save")
                             ELSE [trace EXCEPT ![r].failedAt = "save"]
    /\ pc' = [pc EXCEPT ![r] = "merging"]
    /\ UNCHANGED <<now, active, everStored, tokenSet, apiKeySet, existingTweets,
                   documents, parsedTweets, newTweets, batchStart, classified,
                   allTweets, exitCode, answers>>
    /\ UNCHANGED harnessVars

(* fs.writeFileSync throws: main().catch ends the run with status 1.  The file
   is left as it was, or cut short. *)
SaveFail(r) ==
    /\ pc[r] = "saving"
    /\ \E torn \in BOOLEAN :
          /\ file' = IF torn THEN TornFile ELSE file
          /\ trace' = IF torn THEN Written(r, "save")
                             ELSE [trace EXCEPT ![r].failedAt = "save"]
    /\ Exit1(r)
    /\ UNCHANGED <<now, active, everStored, tokenSet, apiKeySet>>
    /\ UNCHANGED harnessVars

(* the process is stopped from outside while it runs; a stop while
   fs.writeFileSync is writing leaves the file cut short *)
Kill(r) ==
    /\ pc[r] \in Running
    /\ \E midWrite \in BOOLEAN :
          /\ midWrite => pc[r] = "saving"
          /\ file' = IF midWrite THEN TornFile ELSE file
          /\ trace' = IF midWrite THEN Written(r, "")
                      ELSE IF pc[r] = "saving"
                           THEN [trace EXCEPT ![r] =
                                    [@ EXCEPT !.stopDocs = documents[r],
                                              !.stopNew = newTweets[r]]]
                           ELSE trace
    /\ Ends(r, "killed", -1)
    /\ UNCHANGED <<now, active, everStored, tokenSet, apiKeySet>>
    /\ UNCHANGED harnessVars

(* time passes *)
Tick ==
    /\ \E t \in ClockValues :
          /\ t > now
          /\ now' = t
    /\ UNCHANGED <<file, active, everStored, pc, tokenSet, apiKeySet, existingTweets, documents,
                   parsedTweets, newTweets, batchStart, classified, allTweets,
                   exitCode, answers, trace>>
    /\ UNCHANGED harnessVars

----------------------------------------------------------------------------
(* The feed renderer: generateCategoryRss and generateAllTweetsRss.  Here a
   string is the sequence of its characters: publishedAt is the date, two
   digits in the model, followed or not by "T" and a time. *)

MaxFeedDays == 30

Chars == <<"0", "1", "2", "3", "4", "5", "6", "7", "8", "9", "T">>

(* the place of a character in the collation order *)
Code(c) == CHOOSE i \in DOMAIN Chars : Chars[i] = c

(* publishedAt.split("T")[0] *)
RECURSIVE DatePortion(_)
DatePortion(str) ==
    IF str = <<>> \/ Head(str) = "T" THEN <<>>
    ELSE <<Head(str)>> \o DatePortion(Tail(str))

(* a.localeCompare(b): negative, zero or positive *)
RECURSIVE LocaleCompare(_, _)
LocaleCompare(a, b) ==
    IF a = <<>> /\ b = <<>> THEN 0
    ELSE IF a = <<>> THEN -1
    ELSE IF b = <<>> THEN 1
    ELSE IF Head(a) = Head(b) THEN LocaleCompare(Tail(a), Tail(b))
    ELSE Code(Head(a)) - Code(Head(b))

(* the comparator with its operands exchanged: oldest day first *)
ByDateAsc(a, b) == LocaleCompare(a, b)

(* (a, b) => b.localeCompare(a) *)
ByDateDesc(a, b) == LocaleCompare(b, a)

RECURSIVE InsertDate(_, _)
InsertDate(s, d) ==
    IF s = <<>> THEN <<d>>
    ELSE IF ByDateDesc(Head(s), d) <= 0
         THEN <<Head(s)>> \o InsertDate(Tail(s), d)
         ELSE <<d>> \o s

(* [...byDate.keys()].sort(...) *)
RECURSIVE SortDates(_)
SortDates(s) ==
    IF s = <<>> THEN <<>>
    ELSE InsertDate(SortDates(SubSeq(s, 1, Len(s) - 1)), s[Len(s)])

(* a slice that keeps every day *)
TakeAll(s, n) == s

(* s.slice(0, n) *)
Take(s, n) == SubSeq(s, 1, Min(n, Len(s)))

(* A Map from a key to a list of posts, in insertion order of the keys:
   list = map.get(key) ?? []; list.push(tweet); map.set(key, list) *)
GroupAdd(groups, key, t) ==
    IF \E k \in DOMAIN groups : groups[k].key = key
    THEN [k \in DOMAIN groups |->
             IF groups[k].key = key
             THEN [groups[k] EXCEPT !.tweets = Append(@, t)]
             ELSE groups[k]]
    ELSE Append(groups, [key |-> key, tweets |-> <<t>>])

MapKeys(groups) == [k \in DOMAIN groups |-> groups[k].key]

(* map.get(key) ?? [] *)
MapGet(groups, key) ==
    IF \E k \in DOMAIN groups : groups[k].key = key
    THEN groups[CHOOSE k \in DOMAIN groups : groups[k].key = key].tweets
    ELSE <<>>

RECURSIVE GroupByDateFrom(_, _)
GroupByDateFrom(groups, tweets) ==
    IF tweets = <<>> THEN groups
    ELSE GroupByDateFrom(GroupAdd(groups, DatePortion(Head(tweets).publishedAt),
                                  Head(tweets)),
                         Tail(tweets))

GroupTweetsByDate(tweets) == GroupByDateFrom(<<>>, tweets)

(* tweet.category ?? "Other" *)
CategoryOrOther(t) == IF t.category = "" THEN "Other" ELSE t.category

RECURSIVE GroupByCategoryFrom(_, _)
GroupByCategoryFrom(groups, tweets) ==
    IF tweets = <<>> THEN groups
    ELSE GroupByCategoryFrom(GroupAdd(groups, CategoryOrOther(Head(tweets)),
                                      Head(tweets)),
                             Tail(tweets))

(* tweets.filter((t) => t.category === category) *)
RECURSIVE FilterCategory(_, _)
FilterCategory(tweets, category) ==
    IF tweets = <<>> THEN <<>>
    ELSE IF Head(tweets).category = category
         THEN <<Head(tweets)>> \o FilterCategory(Tail(tweets), category)
         ELSE FilterCategory(Tail(tweets), category)

(* content.replace(/</g, "&lt;").replace(/>/g, "&gt;") *)
Escape(content) ==
    [k \in DOMAIN content |->
        IF content[k] = "<" THEN "&lt;"
        ELSE IF content[k] = ">" THEN "&gt;" ELSE content[k]]

(* formatTweetsAsHtml: one paragraph for each post, joined by a rule *)
FormatTweetsAsHtml(tweets) ==
    [k \in DOMAIN tweets |->
        [handle |-> tweets[k].handle, content |-> Escape(tweets[k].content),
         url |-> tweets[k].url]]

(* categoryToSlug on the categories of CATEGORIES *)
CategoryToSlug(category) ==
    CASE category = "AI/ML" -> "ai-ml"
      [] category = "Funny" -> "funny"
      [] OTHER -> "other"

(* new Date(date) for a date of digits: midnight of that day *)
RECURSIVE DigitsValue(_)
DigitsValue(str) ==
    IF str = <<>> THEN 0
    ELSE 10 * DigitsValue(SubSeq(str, 1, Len(str) - 1)) + (Code(str[Len(str)]) - 1)

ParseDate(date) == DigitsValue(date) * SecondsPerDay

(* new Feed({...}): updated is the clock at the time of the render *)
NewFeed(title, id, clock) ==
    [title |-> title, id |-> id, link |-> id, updated |-> clock, items |-> <<>>]

(* feed.rss2(): the channel, its lastBuildDate being the feed's updated, and
   the items in the order they were added *)
Rss2(feed) ==
    [channel |-> [title |-> feed.title, link |-> feed.link,
                  lastBuildDate |-> feed.updated],
     items |-> feed.items]

(* the items generateCategoryRss adds, one for each date *)
CategoryItems(tweets, category) ==
    LET byDate == GroupTweetsByDate(FilterCategory(tweets, category))
        shown == Take(SortDates(MapKeys(byDate)), MaxFeedDays)
    IN  [i \in DOMAIN shown |->
            LET dateTweets == MapGet(byDate, shown[i])
            IN  [title |-> <<category, shown[i], Len(dateTweets)>>,
                 id |-> <<CategoryToSlug(category), shown[i]>>,
                 link |-> CategoryToSlug(category),
                 description |-> FormatTweetsAsHtml(dateTweets),
                 date |-> ParseDate(shown[i])]]

(* a renderer that dates every item with the time of the render *)
GenerateCategoryRssStampsItems(tweets, category, clock) ==
    LET items == CategoryItems(tweets, category)
    IN  Rss2([NewFeed(<<"Twitter", category>>, CategoryToSlug(category), clock)
                 EXCEPT !.items = [i \in DOMAIN items |->
                                      [items[i] EXCEPT !.date = clock]]])

GenerateCategoryRss(tweets, category, clock) ==
    Rss2([NewFeed(<<"Twitter", category>>, CategoryToSlug(category), clock)
             EXCEPT !.items = CategoryItems(tweets, category)])

(* the sections of one day of the feed of all categories *)
CategorySections(dateTweets) ==
    LET byCategory == GroupByCategoryFrom(<<>>, dateTweets)
    IN  [k \in DOMAIN byCategory |->
            [heading |-> <<byCategory[k].key, Len(byCategory[k].tweets)>>,
             body |-> FormatTweetsAsHtml(byCategory[k].tweets)]]

GenerateAllTweetsRss(tweets, clock) ==
    LET byDate == GroupTweetsByDate(tweets)
        shown == Take(SortDates(MapKeys(byDate)), MaxFeedDays)
    IN  Rss2([NewFeed(<<"Twitter", "All Categories">>, "all", clock)
                 EXCEPT !.items =
                     [i \in DOMAIN shown |->
                         LET dateTweets == MapGet(byDate, shown[i])
                         IN  [title |-> <<"Twitter Digest", shown[i], Len(dateTweets)>>,
                              id |-> <<"all", shown[i]>>,
                              link |-> "all",
                              description |-> CategorySections(dateTweets),
                              date |-> ParseDate(shown[i])]]])

----------------------------------------------------------------------------
(* Render harness: the two generators applied twice to bounded inputs. *)

MaxRenderLen == 32     \* posts given to render, in the patterned inputs

MaxSmallRenderLen == 2 \* posts given to render, in the inputs taken in full

(* the date of day d, as two digits *)
DayString(d) == <<Chars[(d \div 10) + 1], Chars[(d % 10) + 1]>>

(* an ISO-8601 timestamp of day d: the date alone, or the date and a time *)
PublishedAtOf(d, form) ==
    CASE form = 0 -> DayString(d)
      [] form = 1 -> DayString(d) \o <<"T", "0">>
      [] OTHER -> DayString(d) \o <<"T", "1">>

RenderTweet(id, d, cat) ==
    [id |-> id, author |-> "Author", handle |-> "handle",
     content |-> IF id % 2 = 0 THEN <<"<", "b", ">">> ELSE <<"text">>,
     url |-> [status |-> id], publishedAt |-> PublishedAtOf(d, id % 3),
     category |-> cat]

DayPatterns == {"up", "down", "downwrap", "two", "pairs", "scatter"}

(* the day of the k-th of n posts *)
DayOfPost(pattern, k, n) ==
    CASE pattern = "up" -> k
      [] pattern = "down" -> n + 1 - k
      [] pattern = "downwrap" -> (MaxFeedDays + 1) - ((k - 1) % (MaxFeedDays + 1))
      [] pattern = "two" -> k % 2
      [] pattern = "pairs" -> (k + 1) \div 2
      [] OTHER -> (k * 7) % (MaxFeedDays + 3)

CategoryPatterns == {"same", "cycle", "unset", "first"}

(* the category of the k-th post; "" is a post without a category *)
CategoryOfPost(pattern, k) ==
    CASE pattern = "same" -> "AI/ML"
      [] pattern = "cycle" -> CATEGORIES[(k % 3) + 1]
      [] pattern = "unset" -> <<"Other", "", "AI/ML", "AI/ML">>[(k % 4) + 1]
      [] OTHER -> IF k = 1 THEN "Funny" ELSE "AI/ML"

(* few posts, and as many as fill the feed or exceed it *)
RenderLens == (0..3) \cup ((MaxRenderLen - 2)..MaxRenderLen)

PatternedRenderInputs ==
    { [k \in 1..n |-> RenderTweet(k, DayOfPost(dp, k, n), CategoryOfPost(cp, k))] :
        n \in RenderLens, dp \in DayPatterns, cp \in CategoryPatterns }

(* every short sequence of posts of two days, with or without a category *)
SmallRenderInputs ==
    { [k \in DOMAIN ds |-> RenderTweet(k, ds[k][1], ds[k][2])] :
        ds \in SeqsUpTo({1, 2} \X {"AI/ML", "Other", ""}, MaxSmallRenderLen) }

RenderInputs == PatternedRenderInputs \cup SmallRenderInputs

Scopes == {"all"} \cup CategorySet

NoFeed == Rss2(NewFeed(<<>>, "", 0))

(* render(posts, scope) at the given time *)
RenderAt(clock) ==
    IF rScope = "all" THEN GenerateAllTweetsRss(rPosts, clock)
    ELSE GenerateCategoryRss(rPosts, rScope, clock)

ApplyRender ==
    /\ rStep = 0
    /\ rFirst' = RenderAt(now)
    /\ rStep' = 1
    /\ UNCHANGED <<rPosts, rScope, rSecond>>
    /\ UNCHANGED pipeVars
    /\ UNCHANGED mergeVars
    /\ UNCHANGED extractVars

ApplyRenderAgain ==
    /\ rStep = 1
    /\ rSecond' = RenderAt(now)
    /\ rStep' = 2
    /\ UNCHANGED <<rPosts, rScope, rFirst>>
    /\ UNCHANGED pipeVars
    /\ UNCHANGED mergeVars
    /\ UNCHANGED extractVars

----------------------------------------------------------------------------
(* Extract harness: parseTweetsFromDocument applied twice to bounded digests. *)

MaxFragments == 2      \* fragments in one digest

(* n visible characters *)
Letters(n) == [k \in 1..n |-> "a"]

(* A fragment is a profile link, if it has one; then the link to the post, if
   there is one: on twitter.com or x.com, on another host, with the path
   segment in either case; then what is left: text around the content
   thresholds, markup that holds no text, text outside the patterns, text
   longer than the cap. *)
Fragments ==
    LET profileLinks ==
            { <<>>,
              <<Anchor("twitter", "ada", "", 0, <<" ", "A", " ">>)>>,
              <<Anchor("twitter", "ada", "", 0, <<"A", "<>", "B">>)>> }
        permalinks ==
            { <<>>,
              <<Anchor("twitter", "bob", "status", 42, <<>>)>>,
              <<Anchor("x", "bob", "status", 7, <<>>)>>,
              <<Anchor("twitter", "bob", "STATUS", 42, <<>>)>>,
              <<Anchor("nitter", "bob", "status", 42, <<>>)>> }
        bodies ==
            { <<>>,
              <<Block("p", <<"<>">>)>>,
              <<Block("p", Letters(MinContent - 1))>>,
              <<Block("p", Letters(MinContent + 1))>>,
              <<Block("p", Letters(3)), Block("div", <<"<>", " ">>)>>,
              <<Block("p", <<>>), Block("div", Letters(MinContent))>>,
              <<Block("script", Letters(2)), Block("style", Letters(2))>>,
              <<Block("text", <<" ", "a", "<>", " ", " ", "a">>)>>,
              <<Block("div", Letters(MaxContent + 1))>> }
    IN  {pr \o pl \o b : pr \in profileLinks, pl \in permalinks, b \in bodies}

(* a digest: any fragment, before or after up to MaxFragments - 1 others, which
   are one fragment that is kept and one that is dropped *)
ExtractInputs ==
    LET others == SeqsUpTo({Article(1), PromotedArticle}, MaxFragments - 1)
        arts == {<<>>} \cup {<<f>> \o o : f \in Fragments, o \in others}
                       \cup {o \o <<f>> : f \in Fragments, o \in others}
    IN  {Item(TRUE, TRUE, date, a) : date \in {NoDate, Dated(0)}, a \in arts}

ApplyExtract ==
    /\ xStep = 0
    /\ xFirst' = ParseTweetsFromDocument(xDoc, now)
    /\ xStep' = 1
    /\ UNCHANGED <<xDoc, xSecond>>
    /\ UNCHANGED pipeVars
    /\ UNCHANGED mergeVars
    /\ UNCHANGED renderVars

ApplyExtractAgain ==
    /\ xStep = 1
    /\ xSecond' = ParseTweetsFromDocument(xDoc, now)
    /\ xStep' = 2
    /\ UNCHANGED <<xDoc, xFirst>>
    /\ UNCHANGED pipeVars
    /\ UNCHANGED mergeVars
    /\ UNCHANGED renderVars

----------------------------------------------------------------------------
(* Specifications *)

IdleProcs ==
    /\ pc = [r \in Procs |-> "idle"]
    /\ tokenSet = [r \in Procs |-> FALSE]
    /\ apiKeySet = [r \in Procs |-> FALSE]
    /\ existingTweets = [r \in Procs |-> <<>>]
    /\ documents = [r \in Procs |-> <<>>]
    /\ parsedTweets = [r \in Procs |-> <<>>]
    /\ newTweets = [r \in Procs |-> <<>>]
    /\ batchStart = [r \in Procs |-> 0]
    /\ classified = [r \in Procs |-> <<>>]
    /\ allTweets = [r \in Procs |-> <<>>]
    /\ exitCode = [r \in Procs |-> -1]
    /\ answers = [r \in Procs |-> <<>>]
    /\ trace = [r \in Procs |-> NoTrace]

NoMerge ==
    /\ mA = <<>>
    /\ mB = <<>>
    /\ mOnce = <<>>
    /\ mTwice = <<>>
    /\ mStep = 0

NoRender ==
    /\ rPosts = <<>>
    /\ rScope = "all"
    /\ rFirst = NoFeed
    /\ rSecond = NoFeed
    /\ rStep = 0

NoExtract ==
    /\ xDoc = Item(TRUE, TRUE, NoDate, <<>>)
    /\ xFirst = <<>>
    /\ xSecond = <<>>
    /\ xStep = 0

(* The pipeline, one run after another, from an absent or an empty store *)
Init ==
    /\ now = 0
    /\ file \in {AbsentFile, EmptyFile}
    /\ active = {"p1"}
    /\ everStored = {}
    /\ IdleProcs
    /\ NoMerge
    /\ NoRender
    /\ NoExtract

StepFrom(r, source) ==
    \/ Load(r)
    \/ FetchNoToken(r)
    \/ FetchRequest(r)
    \/ FetchFail(r)
    \/ FetchOkFrom(r, source)
    \/ Extract(r)
    \/ Dedup(r)
    \/ ClassifyNoKey(r)
    \/ ClassifyEnter(r)
    \/ ClassifyRequest(r)
    \/ ClassifyBatch(r)
    \/ Merge(r)
    \/ Save(r)
    \/ SaveFail(r)
    \/ Kill(r)

Step(r) == StepFrom(r, World)

Next == (\E r \in Procs : Step(r)) \/ Tick

Spec == Init /\ [][Next]_vars

(* The steps a started process takes by itself: everything but the start of
   a run, the answers of the two remote services, and a stop from outside *)
OwnStep(r) ==
    \/ FetchNoToken(r)
    \/ FetchRequest(r)
    \/ Extract(r)
    \/ Dedup(r)
    \/ ClassifyNoKey(r)
    \/ ClassifyEnter(r)
    \/ ClassifyRequest(r)
    \/ Merge(r)
    \/ Save(r)
    \/ SaveFail(r)

(* The pipeline on a digest source that serves permalinks in capitals *)
NextCapitals == (\E r \in Procs : StepFrom(r, CapitalWorld)) \/ Tick

(* the runs start when a post of the epoch reaches the retention age *)
InitLate ==
    /\ now = MaxAge
    /\ file \in {AbsentFile, EmptyFile}
    /\ active = {"p1"}
    /\ everStored = {}
    /\ IdleProcs
    /\ NoMerge
    /\ NoRender
    /\ NoExtract

SpecCapitals == InitLate /\ [][NextCapitals]_vars

(* Two runs of the pipeline side by side, as two cron invocations that
   overlap: each process runs main once, and nothing orders the steps of one
   against the steps of the other, since neither loadCache nor saveCache takes
   a lock. *)
NextOverlap ==
    \/ \E r \in Procs :
          /\ pc[r] \in Running \cup {"idle"}
          /\ StepFrom(r, OverlapWorld(r))
    \/ Tick

InitOverlap ==
    /\ now = MaxAge
    /\ file = AbsentFile
    /\ active = Procs
    /\ everStored = {}
    /\ IdleProcs
    /\ NoMerge
    /\ NoRender
    /\ NoExtract

SpecOverlap == InitOverlap /\ [][NextOverlap]_vars

(* The pipeline with its scheduling, on a source with one digest and one item
   that is none: a process that can take a step of its own takes one.
   Nothing makes an awaited call answer: fetch is called without a signal and
   client.messages.create without a timeout. *)
NextLive ==
    \/ \E r \in Procs :
          StepFrom(r, { Item(TRUE, TRUE, Dated(1), <<Article(1)>>),
                        Item(TRUE, FALSE, Dated(1), <<>>) })
    \/ Tick

SpecLive == InitLate /\ [][NextLive]_vars /\ \A r \in Procs : WF_vars(OwnStep(r))

(* mergeTweets on arbitrary arguments *)
InitMerge ==
    /\ now = 0
    /\ file = AbsentFile
    /\ active = {}
    /\ everStored = {}
    /\ IdleProcs
    /\ mA \in SeqsUpTo(MergePool, MaxMergeLen)
    /\ mB \in SeqsUpTo(MergePool, MaxMergeLen)
    /\ mOnce = <<>>
    /\ mTwice = <<>>
    /\ mStep = 0
    /\ NoRender
    /\ NoExtract

NextMerge == ApplyMerge \/ ApplyMergeAgain

SpecMerge == InitMerge /\ [][NextMerge]_vars

(* classifyTweets on bounded inputs of one or two batches: the posts are
   numbered upwards, downwards, or share two ids *)
ClassifyInputs ==
    UNION { { [k \in 1..n |-> MkTweet(k, 0, "")],
              [k \in 1..n |-> MkTweet(n + 1 - k, 1, "")],
              [k \in 1..n |-> MkTweet((k % 2) + 1, k % 2, "")] } :
            n \in 0..MaxClassifyLen }

InitClassify ==
    /\ now = 0
    /\ file = AbsentFile
    /\ active = {}
    /\ everStored = {}
    /\ pc = [r \in Procs |-> IF r = "p1" THEN "classify_enter" ELSE "idle"]
    /\ tokenSet = [r \in Procs |-> FALSE]
    /\ apiKeySet = [r \in Procs |-> FALSE]
    /\ existingTweets = [r \in Procs |-> <<>>]
    /\ documents = [r \in Procs |-> <<>>]
    /\ parsedTweets = [r \in Procs |-> <<>>]
    /\ \E input \in ClassifyInputs :
          newTweets = [r \in Procs |-> IF r = "p1" THEN input ELSE <<>>]
    /\ batchStart = [r \in Procs |-> 0]
    /\ classified = [r \in Procs |-> <<>>]
    /\ allTweets = [r \in Procs |-> <<>>]
    /\ exitCode = [r \in Procs |-> -1]
    /\ answers = [r \in Procs |-> <<>>]
    /\ trace = [r \in Procs |-> NoTrace]
    /\ NoMerge
    /\ NoRender
    /\ NoExtract

NextClassify ==
    \/ ClassifyNoKey("p1")
    \/ ClassifyEnter("p1")
    \/ ClassifyRequest("p1")
    \/ ClassifyBatch("p1")

SpecClassify == InitClassify /\ [][NextClassify]_vars

(* the renderer on bounded inputs, rendered twice while time passes *)
InitRender ==
    /\ now = 0
    /\ file = AbsentFile
    /\ active = {}
    /\ everStored = {}
    /\ IdleProcs
    /\ NoMerge
    /\ rPosts \in RenderInputs
    /\ rScope \in Scopes
    /\ rFirst = NoFeed
    /\ rSecond = NoFeed
    /\ rStep = 0
    /\ NoExtract

NextRender == ApplyRender \/ ApplyRenderAgain \/ Tick

SpecRender == InitRender /\ [][NextRender]_vars

(* the extractor on bounded digests, applied twice while time passes *)
InitExtract ==
    /\ now = 0
    /\ file = AbsentFile
    /\ active = {}
    /\ everStored = {}
    /\ IdleProcs
    /\ NoMerge
    /\ NoRender
    /\ xDoc \in ExtractInputs
    /\ xFirst = <<>>
    /\ xSecond = <<>>
    /\ xStep = 0

NextExtract == ApplyExtract \/ ApplyExtractAgain \/ Tick

SpecExtract == InitExtract /\ [][NextExtract]_vars

----------------------------------------------------------------------------
(* Properties of mergeTweets (SpecMerge) *)

WithId(s, id) == {k \in DOMAIN s : s[k].id = id}

FirstWithId(s, id) == s[CHOOSE k \in WithId(s, id) : \A j \in WithId(s, id) : k <= j]

(* C1: merge is first-write-wins by id: the result holds exactly one post for
   each id of existing and incoming together; for an id of existing it is a
   record of existing, never the incoming one; for an id that only incoming
   has it is the first incoming record with that id. *)
C1_MergeFirstWriteWins ==
    mStep >= 1 =>
        /\ IdsOf(mOnce) = IdsOf(mA) \cup IdsOf(mB)
        /\ \A k \in DOMAIN mOnce :
              /\ WithId(mOnce, mOnce[k].id) = {k}
              /\ IF mOnce[k].id \in IdsOf(mA)
                 THEN \E a \in WithId(mA, mOnce[k].id) : mOnce[k] = mA[a]
                 ELSE mOnce[k] = FirstWithId(mB, mOnce[k].id)

(* an id is in both arguments, with different categories, and merge has run *)
C1_Witness ==
    /\ mStep >= 1
    /\ \E a \in DOMAIN mA, b \in DOMAIN mB :
          /\ mA[a].id = mB[b].id
          /\ mA[a].category # mB[b].category
          /\ \E k \in DOMAIN mOnce : mOnce[k] = mA[a]

(* C5: merge is dedup-idempotent: merge(merge(A,B),B) is merge(A,B), the same
   posts in the same order. *)
C5_MergeIdempotent == mStep = 2 => mTwice = mOnce

(* both applications are done on arguments that share an id and leave a tie
   of publishedAt in the result *)
C5_Witness ==
    /\ mStep = 2
    /\ IdsOf(mA) \cap IdsOf(mB) # {}
    /\ Len(mOnce) = 2
    /\ mOnce[1].publishedAt = mOnce[2].publishedAt

(* C6: the result of merge is sorted by publishedAt descending: no post comes
   after a post with an earlier publishedAt. *)
C6_MergeSortedDesc ==
    mStep >= 1 =>
        \A i \in DOMAIN mOnce, j \in DOMAIN mOnce :
            i < j => mOnce[i].publishedAt >= mOnce[j].publishedAt

(* the incoming post is newer than the stored one and has moved ahead of it *)
C6_Witness ==
    /\ mStep >= 1
    /\ Len(mA) >= 1
    /\ Len(mB) >= 1
    /\ mA[1].id # mB[1].id
    /\ mA[1].publishedAt < mB[1].publishedAt
    /\ mOnce[1].id = mB[1].id

----------------------------------------------------------------------------
(* Properties of classifyTweets (SpecClassify) *)

(* the post without its category *)
Unclassified(t) == [t EXCEPT !.category = ""]

(* the call that covers the g-th post, and the post's place in that call *)
BatchOf(g) == ((g - 1) \div BATCH_SIZE) + 1

SlotOf(g) == ((g - 1) % BATCH_SIZE) + 1

NumBatches(n) == (n + BATCH_SIZE - 1) \div BATCH_SIZE

(* the label an answer gives to the post in place j: that of the j-th
   non-blank line when it is a category, otherwise the catch-all *)
LabelFor(answer, j) ==
    LET labels == IF answer.kind = "message" /\ answer.isText
                  THEN NonEmptyLines(answer.lines) ELSE <<>>
    IN  IF j <= Len(labels) /\ \E c \in CategorySet : labels[j] = <<c>>
        THEN labels[j][1]
        ELSE "Other"

(* C2: classify returns, whatever each call did (full answer, short answer,
   malformed labels, thrown call), as many posts as it was given, in the same
   order, each with a category of the enumeration: the label of its
   order-aligned answer line when that is a category, 'Other' otherwise. *)
C2_ClassifyLabelsEveryPost ==
    \A r \in Procs :
        pc[r] = "merging" =>
            /\ Len(classified[r]) = Len(newTweets[r])
            /\ Len(answers[r]) = NumBatches(Len(newTweets[r]))
            /\ \A g \in DOMAIN classified[r] :
                  /\ Unclassified(classified[r][g]) = newTweets[r][g]
                  /\ classified[r][g].category \in CategorySet
                  /\ classified[r][g].category =
                         LabelFor(answers[r][BatchOf(g)], SlotOf(g))

(* two batches, one answered with a usable and an unusable label and with
   too few lines, the other thrown *)
C2_Witness ==
    /\ pc["p1"] = "merging"
    /\ Len(newTweets["p1"]) > BATCH_SIZE
    /\ \E b \in DOMAIN answers["p1"] : answers["p1"][b].kind = "throw"
    /\ \E b \in DOMAIN answers["p1"] :
          /\ answers["p1"][b].kind = "message"
          /\ answers["p1"][b].isText
          /\ <<"Sports">> \in Range(answers["p1"][b].lines)
          /\ Len(answers["p1"][b].lines) < Len(BatchAt(newTweets["p1"], (b - 1) * BATCH_SIZE))
    /\ \E g \in DOMAIN classified["p1"] : classified["p1"][g].category = "Funny"

(* the posts of the b-th call *)
PostsOfCall(b, n) == {g \in 1..n : BatchOf(g) = b}

(* C3: a failed classification call does not make classify raise: the posts of
   that batch come back as they were given, with category 'Other', and the
   other batches are still submitted and labelled from their own answers. *)
C3_FailedBatchFallsBack ==
    \A r \in Procs :
        /\ trace[r].thrown > 0 => trace[r].failedAt # "classify"
        /\ \A b \in DOMAIN answers[r] :
              answers[r][b].kind = "throw" =>
                  \A g \in PostsOfCall(b, Len(newTweets[r])) :
                      /\ g \in DOMAIN classified[r]
                      /\ classified[r][g] = WithCategory(newTweets[r][g], "Other")
        /\ pc[r] = "merging" =>
              /\ Len(answers[r]) = NumBatches(Len(newTweets[r]))
              /\ Len(classified[r]) = Len(newTweets[r])
              /\ \A b \in DOMAIN answers[r] :
                    answers[r][b].kind = "message" =>
                        \A g \in PostsOfCall(b, Len(newTweets[r])) :
                            classified[r][g] =
                                WithCategory(newTweets[r][g],
                                             LabelFor(answers[r][b], SlotOf(g)))

(* the first call threw, the second was answered and gave a post a label
   other than the catch-all *)
C3_Witness ==
    /\ pc["p1"] = "merging"
    /\ Len(answers["p1"]) = 2
    /\ answers["p1"][1].kind = "throw"
    /\ answers["p1"][2].kind = "message"
    /\ classified["p1"][BATCH_SIZE + 1].category = "AI/ML"
    /\ \A g \in 1..BATCH_SIZE : classified["p1"][g].category = "Other"

----------------------------------------------------------------------------
(* Properties of the run (Spec) *)

Stored == IF file.exists /\ file.parses THEN file.tweets ELSE <<>>

(* C4: retention: in every persisted store each post's publishedAt is no more
   than 30 days before the store's updatedAt. *)
C4_RetentionAgainstUpdatedAt ==
    \A k \in DOMAIN Stored : file.updatedAt - Stored[k].publishedAt <= MaxAge

(* C7: a run that fetches no digest, or extracts no post, or extracts only
   posts whose ids are in the loaded store, ends after deduplication without a
   classification call, a merge or a write: the file, updatedAt included, is
   what the run loaded. *)
C7_NothingNewNoCallNoPersist ==
    \A r \in Procs :
        /\ pc[r] \in {"classify_enter", "classify_batch", "awaiting_answer",
                    "merging", "saving"} =>
              /\ documents[r] # <<>>
              /\ parsedTweets[r] # <<>>
              /\ IdsOf(parsedTweets[r]) \ IdsOf(existingTweets[r]) # {}
        /\ (pc[r] # "idle" /\ trace[r].fresh = 0) =>
              /\ trace[r].calls = 0
              /\ trace[r].merges = 0
              /\ trace[r].writes = 0
              /\ file = trace[r].start
        /\ trace[r].early \in {"no_digests", "no_tweets", "no_new"} =>
              /\ pc[r] = "done"
              /\ exitCode[r] = 0
              /\ trace[r].fresh = 0

(* a run has ended because every extracted post was already stored *)
C7_Witness ==
    /\ pc["p1"] = "done"
    /\ trace["p1"].early = "no_new"
    /\ trace["p1"].parsed > 0
    /\ Len(Stored) > 0
    /\ file = trace["p1"].start

(* C8: a failed digest fetch ends the run with a failure exit: at most one
   request was made, nothing was extracted or classified, and the file is what
   the run loaded. *)
C8_FetchFailureAborts ==
    \A r \in Procs :
        trace[r].failedAt = "fetch" =>
            /\ pc[r] = "failed"
            /\ exitCode[r] = 1
            /\ trace[r].fetches <= 1
            /\ trace[r].parsed = 0
            /\ trace[r].calls = 0
            /\ trace[r].merges = 0
            /\ trace[r].writes = 0
            /\ file = trace[r].start

(* the request of a run failed while the store held posts *)
C8_Witness ==
    /\ trace["p1"].failedAt = "fetch"
    /\ trace["p1"].fetches = 1
    /\ Len(Stored) > 0

(* C9, as claimed: whatever fails while classifying, a run with a never-seen
   post that has ended by itself has merged and has gone on to save. *)
C9_ClassifyingNeverAborts ==
    \A r \in Procs :
        (pc[r] \in {"done", "failed"} /\ trace[r].fresh > 0) =>
            /\ trace[r].merges = 1
            /\ trace[r].writes = 1 \/ trace[r].failedAt = "save"

(* C9, amended: a failed classification call never ends the run: a run with a
   never-seen post and ANTHROPIC_API_KEY set that has ended by itself has
   merged and has gone on to save; classify raises only when the key is not
   set, before any call, and the run then ends with status 1 without merge or
   write. *)
C9_FailedCallsNeverAbort ==
    \A r \in Procs :
        /\ (pc[r] \in {"done", "failed"} /\ trace[r].fresh > 0 /\ apiKeySet[r]) =>
              /\ trace[r].merges = 1
              /\ trace[r].writes = 1 \/ trace[r].failedAt = "save"
        /\ trace[r].failedAt = "classify" =>
              /\ ~apiKeySet[r]
              /\ pc[r] = "failed"
              /\ exitCode[r] = 1
              /\ trace[r].calls = 0
              /\ trace[r].merges = 0
              /\ trace[r].writes = 0

(* a run in which a classification call threw has saved and ended normally *)
C9_Witness ==
    /\ pc["p1"] = "done"
    /\ trace["p1"].thrown > 0
    /\ trace["p1"].writes = 1
    /\ Len(Stored) > 0

(* C10: every post of the persisted store has a category of the enumeration *)
C10_StoredPostsClassified ==
    \A k \in DOMAIN Stored : Stored[k].category \in CategorySet

(* the store holds two posts written by runs, one of a run whose call threw *)
C10_Witness ==
    /\ Len(Stored) = 2
    /\ trace["p1"].thrown > 0
    /\ trace["p1"].writes = 1

(* C11, as claimed: a post that a save has once written to the store is in no
   later run submitted to the classifier again. *)
C11_NeverReclassified ==
    \A r \in Procs : IdsOf(classified[r]) \cap everStored = {}

(* C11, amended: a post is never classified again while it is in the store:
   no run submits to the classifier a post whose id is in the store the run
   loaded, which between non-overlapping runs is the store as it is. *)
C11_StoredNeverResubmitted ==
    \A r \in Procs :
        /\ IdsOf(classified[r]) \cap IdsOf(LoadedTweets(trace[r].start)) = {}
        /\ IdsOf(classified[r]) \cap IdsOf(Stored) = {}

(* a run has classified a new post of a digest whose other post is stored *)
C11_Witness ==
    /\ pc["p1"] = "merging"
    /\ classified["p1"] # <<>>
    /\ IdsOf(parsedTweets["p1"]) \cap IdsOf(Stored) # {}
    /\ IdsOf(Stored) \subseteq everStored

(* C12: stored posts are immutable across non-overlapping runs: whenever a
   run changes the persisted store, every post that was in it and is inside
   the retention window of that save is still in it, with all its fields,
   category included, identical. *)
C12_StoredPostsImmutable ==
    [][\A k \in DOMAIN Stored :
          Stored[k].publishedAt >= now - MaxAge =>
              \E j \in DOMAIN Stored' : Stored'[j] = Stored[k]]_vars

(* the place of the post with the given id in a sequence without duplicates *)
PlaceOf(s, id) == CHOOSE k \in DOMAIN s : s[k].id = id

(* C13: a run that reaches Persisted leaves in the store exactly the posts of
   merge(store loaded at run start, newly classified posts) whose publishedAt
   is inside the retention window of the save, once each and in the order of
   the merge; nothing of the prior content is left besides them. *)
C13_PersistedIsWindowOfFullMerge ==
    [][\A r \in Procs :
          (pc[r] = "saving" /\ pc'[r] = "done") =>
              LET merged == MergeTweets(LoadedTweets(trace[r].start), classified[r])
                  kept == {p \in Range(merged) : p.publishedAt >= now - MaxAge}
              IN  /\ file'.exists
                  /\ file'.parses
                  /\ Range(Stored') = kept
                  /\ Len(Stored') = Cardinality(kept)
                  /\ \A i \in DOMAIN Stored', j \in DOMAIN Stored' :
                        i < j => PlaceOf(merged, Stored'[i].id)
                                     < PlaceOf(merged, Stored'[j].id)]_vars

(* a run has saved: the post it loaded has left the window and is gone, the
   post it classified is stored *)
C13_Witness ==
    /\ pc["p1"] = "done"
    /\ trace["p1"].writes = 1
    /\ Len(LoadedTweets(trace["p1"].start)) = 1
    /\ Len(Stored) = 1
    /\ Stored[1].id \notin IdsOf(LoadedTweets(trace["p1"].start))

(* C14: persistence is all-or-nothing per run: at every point of a run, also
   when its save is interrupted, the file is the complete content from before
   the run or a complete new content, never a partially written one. *)
C14_PersistenceAllOrNothing ==
    \A r \in Procs :
        pc[r] # "idle" =>
            \/ file = trace[r].start
            \/ file.exists /\ file.parses

(* C15: when a run stops after merge and before save, the file is exactly
   what the run loaded, and the next run, given the same digests, is left after
   deduplication with the same new posts, id and content unchanged, and hands
   them to the classifier again. *)
C15_StopBetweenMergeAndSave ==
    \A r \in Procs :
        /\ (pc[r] = "killed" /\ trace[r].merges = 1 /\ trace[r].writes = 0) =>
              /\ file = trace[r].start
              /\ trace[r].stopNew # <<>>
        /\ (trace[r].prevNew # <<>> /\ documents[r] = trace[r].prevDocs) =>
              /\ pc[r] = "deduplicating" =>
                    {p \in Range(parsedTweets[r]) : p.id \notin IdsOf(Stored)}
                        = Range(trace[r].prevNew)
              /\ pc[r] = "classify_enter" => newTweets[r] = trace[r].prevNew

(* the file the run found could not be loaded: absent, unreadable or malformed *)
LoadFailed(r) == ~(trace[r].start.exists /\ trace[r].start.parses)

(* C16: a load failure is not fatal: no run fails at load, and a run that
   found the file absent, unreadable or malformed goes on with an empty
   existing set, so every post it extracts counts as never seen. *)
C16_LoadFailureNotFatal ==
    \A r \in Procs :
        /\ trace[r].failedAt \in {"", "fetch", "classify", "save"}
        /\ (pc[r] = "failed" /\ trace[r].fetches = 0) => trace[r].failedAt = "fetch"
        /\ (LoadFailed(r) /\ pc[r] \in Running) => existingTweets[r] = <<>>
        /\ (LoadFailed(r) /\ pc[r] \in {"classify_enter", "classify_batch",
                                         "awaiting_answer", "merging", "saving"}) =>
              /\ parsedTweets[r] # <<>>
              /\ newTweets[r] = parsedTweets[r]

(* a run that found a file cut short goes on to classify every post it
   extracted, a post that was once stored among them *)
C16_Witness ==
    /\ pc["p1"] = "classify_batch"
    /\ trace["p1"].start = TornFile
    /\ Len(newTweets["p1"]) = 2
    /\ newTweets["p1"] = parsedTweets["p1"]
    /\ IdsOf(newTweets["p1"]) \cap everStored # {}

(* C17: for n posts exactly ceil(n/10) classification calls are made: the
   k-th call covers the posts 10(k-1)+1 .. min(10k, n), at least one and at
   most 10 consecutive posts, the calls follow one another in input order, and
   a call that failed is not made again: the call after it covers the next
   posts. *)
C17_OneCallPerBatchInOrder ==
    [][\A r \in Procs :
          LET n == Len(newTweets[r])
              k == trace[r].calls
              lo == BATCH_SIZE * k + 1
              hi == Min(BATCH_SIZE * (k + 1), n)
          IN  /\ trace'[r].calls \in {k, k + 1}
              /\ Len(answers'[r]) = trace'[r].calls
              /\ trace'[r].calls = k + 1 =>
                    /\ lo <= hi
                    /\ Len(classified[r]) = lo - 1
                    /\ Len(classified'[r]) = hi
                    /\ \A g \in 1..hi :
                          Unclassified(classified'[r][g]) = newTweets[r][g]
                    /\ \A g \in 1..(lo - 1) : classified'[r][g] = classified[r][g]
              /\ (pc'[r] = "merging" /\ pc[r] # "merging") =>
                    trace'[r].calls = NumBatches(n)]_vars

(* eleven posts have been classified in two calls that both failed *)
C17_Witness ==
    /\ pc["p1"] = "merging"
    /\ Len(newTweets["p1"]) = BATCH_SIZE + 1
    /\ trace["p1"].calls = 2
    /\ trace["p1"].thrown = 2
    /\ Len(classified["p1"]) = BATCH_SIZE + 1

----------------------------------------------------------------------------
(* Properties of the renderer (SpecRender) *)

(* the calendar day of a timestamp or of a date: the number its first two
   digits write *)
DayNumber(str) == 10 * (Code(str[1]) - 1) + (Code(str[2]) - 1)

(* the day an entry of the feed is for *)
EntryDay(item) == DayNumber(item.id[2])

(* the days that are among the 30 most recent of a set of days *)
MostRecentDays(days) ==
    {d \in days : Cardinality({e \in days : e > d}) < MaxFeedDays}

(* the permalinks of a sequence of posts, or of rendered posts, in order *)
Links(posts) == [k \in DOMAIN posts |-> posts[k].url]

RECURSIVE PostsOfDay(_, _)
PostsOfDay(posts, d) ==
    IF posts = <<>> THEN <<>>
    ELSE IF DayNumber(Head(posts).publishedAt) = d
         THEN <<Head(posts)>> \o PostsOfDay(Tail(posts), d)
         ELSE PostsOfDay(Tail(posts), d)

RECURSIVE PostsOfCategory(_, _)
PostsOfCategory(posts, c) ==
    IF posts = <<>> THEN <<>>
    ELSE IF Head(posts).category = c
         THEN <<Head(posts)>> \o PostsOfCategory(Tail(posts), c)
         ELSE PostsOfCategory(Tail(posts), c)

(* the entries are for exactly the given days, one entry for each, newest
   day first *)
EntriesAreForDays(items, days) ==
    /\ {EntryDay(items[i]) : i \in DOMAIN items} = days
    /\ Len(items) = Cardinality(days)
    /\ \A i \in DOMAIN items, j \in DOMAIN items :
          i < j => EntryDay(items[i]) > EntryDay(items[j])

(* C18: for a single-category scope render gives one entry for each calendar
   day on which the category has posts, limited to the 30 most recent of
   these days, newest day first; an entry holds exactly the posts of its day
   and of that category, in input order, and no post of another category. *)
C18_CategoryFeedEntries ==
    (rStep >= 1 /\ rScope # "all") =>
        LET mine == PostsOfCategory(rPosts, rScope)
            days == {DayNumber(mine[k].publishedAt) : k \in DOMAIN mine}
            items == rFirst.items
        IN  /\ EntriesAreForDays(items, MostRecentDays(days))
            /\ Len(items) <= MaxFeedDays
            /\ \A i \in DOMAIN items :
                  /\ Links(items[i].description)
                         = Links(PostsOfDay(mine, EntryDay(items[i])))
                  /\ items[i].title[3] = Len(PostsOfDay(mine, EntryDay(items[i])))
                  /\ \A k \in DOMAIN rPosts :
                        rPosts[k].category # rScope =>
                            \A e \in DOMAIN items[i].description :
                                items[i].description[e].url # rPosts[k].url

(* the category has posts on more than 30 days, the input holds a post of
   another category, and the feed has its 30 entries *)
C18_Witness ==
    /\ rStep >= 1
    /\ rScope = "AI/ML"
    /\ Len(rFirst.items) = MaxFeedDays
    /\ Cardinality({DayNumber(rPosts[k].publishedAt) :
                       k \in {j \in DOMAIN rPosts : rPosts[j].category = "AI/ML"}})
           > MaxFeedDays
    /\ \E k \in DOMAIN rPosts : rPosts[k].category = "Funny"
    /\ EntryDay(rFirst.items[1]) > EntryDay(rFirst.items[MaxFeedDays])

RECURSIVE SumOfCounts(_)
SumOfCounts(sections) ==
    IF sections = <<>> THEN 0
    ELSE Head(sections).heading[2] + SumOfCounts(Tail(sections))

(* the category a post is listed under *)
ListedCategory(t) == IF t.category \in CategorySet THEN t.category ELSE "Other"

RECURSIVE PostsListedUnder(_, _)
PostsListedUnder(posts, c) ==
    IF posts = <<>> THEN <<>>
    ELSE IF ListedCategory(Head(posts)) = c
         THEN <<Head(posts)>> \o PostsListedUnder(Tail(posts), c)
         ELSE PostsListedUnder(Tail(posts), c)

(* an entry of the feed of all categories is subdivided by category: one
   section for each category present on the day, headed by the category and
   its number of posts; every post of the day is in exactly one section and
   the numbers sum to the number of posts of the day *)
EntrySubdivided(item, dayPosts) ==
    LET sections == item.description
    IN  /\ item.title[3] = Len(dayPosts)
        /\ {sections[k].heading[1] : k \in DOMAIN sections}
               = {ListedCategory(dayPosts[k]) : k \in DOMAIN dayPosts}
        /\ \A k \in DOMAIN sections, j \in DOMAIN sections :
              k # j => sections[k].heading[1] # sections[j].heading[1]
        /\ \A k \in DOMAIN sections :
              /\ sections[k].heading[2] = Len(sections[k].body)
              /\ Links(sections[k].body)
                     = Links(PostsListedUnder(dayPosts, sections[k].heading[1]))
        /\ \A p \in DOMAIN dayPosts :
              Cardinality({k \in DOMAIN sections :
                             \E e \in DOMAIN sections[k].body :
                                 sections[k].body[e].url = dayPosts[p].url}) = 1
        /\ SumOfCounts(sections) = Len(dayPosts)

AllDays == {DayNumber(rPosts[k].publishedAt) : k \in DOMAIN rPosts}

(* C19, as claimed: for the scope 'all' render gives exactly one entry for
   each distinct day of the posts, newest first, each subdivided by category. *)
C19_AllFeedOneEntryPerDay ==
    (rStep >= 1 /\ rScope = "all") =>
        /\ EntriesAreForDays(rFirst.items, AllDays)
        /\ \A i \in DOMAIN rFirst.items :
              EntrySubdivided(rFirst.items[i],
                              PostsOfDay(rPosts, EntryDay(rFirst.items[i])))

(* C19, amended: for the scope 'all' render gives exactly one entry for each
   of the 30 most recent distinct days of the posts, newest first, each
   subdivided by category; posts of two days give exactly two entries. *)
C19_AllFeedOneEntryPerRecentDay ==
    (rStep >= 1 /\ rScope = "all") =>
        /\ EntriesAreForDays(rFirst.items, MostRecentDays(AllDays))
        /\ Cardinality(AllDays) = 2 => Len(rFirst.items) = 2
        /\ \A i \in DOMAIN rFirst.items :
              EntrySubdivided(rFirst.items[i],
                              PostsOfDay(rPosts, EntryDay(rFirst.items[i])))

(* posts of more than 30 days are rendered in 30 entries, and the newest
   entry has two sections *)
C19_Witness ==
    /\ rStep >= 1
    /\ rScope = "all"
    /\ Cardinality(AllDays) > MaxFeedDays
    /\ Len(rFirst.items) = MaxFeedDays
    /\ Len(rFirst.items[1].description) = 2

(* C20: render is deterministic: two renders of the same posts and scope, made
   at different times, give the same document, entry order, section order and
   post order included, but for the feed-level timestamp. *)
C20_RenderDeterministic ==
    rStep = 2 =>
        [rFirst EXCEPT !.channel.lastBuildDate = 0]
            = [rSecond EXCEPT !.channel.lastBuildDate = 0]

(* a category feed of several entries was rendered twice, at different times *)
C20_Witness ==
    /\ rStep = 2
    /\ rScope # "all"
    /\ rFirst.channel.lastBuildDate # rSecond.channel.lastBuildDate
    /\ Len(rFirst.items) >= 2
    /\ Len(rSecond.items) >= 2

----------------------------------------------------------------------------
(* Properties of the extractor (SpecExtract) *)

(* the fragment holds a link of the permalink shape *)
HasPermalink(frag) ==
    \E k \in DOMAIN frag :
        /\ frag[k].kind = "a"
        /\ frag[k].host \in {"twitter", "x"}
        /\ frag[k].first # ""
        /\ frag[k].seg \in {"status", "STATUS"}

(* the fragment shows a character to the reader, the text of a link included *)
HasText(frag) ==
    \E k \in DOMAIN frag :
        /\ frag[k].kind \notin {"script", "style"}
        /\ \E c \in DOMAIN frag[k].body : frag[k].body[c] \notin {" ", "<>"}

(* the fragments of the digest that have both, in document order *)
KeptFragments(frags) ==
    {k \in DOMAIN frags : HasPermalink(frags[k]) /\ HasText(frags[k])}

(* the i-th smallest element of a set of numbers *)
NthOf(S, i) == CHOOSE k \in S : Cardinality({j \in S : j <= k}) = i

(* C21: every extracted post has a non-empty content and a non-empty url; a
   fragment that is left without text or without a permalink is dropped and
   the other fragments of the digest are still extracted: the posts are, in
   document order, those of the fragments that have both. *)
C21_ExtractedPostsHaveContentAndUrl ==
    xStep >= 1 =>
        LET frags == xDoc.articles
            kept == KeptFragments(frags)
        IN  /\ \A i \in DOMAIN xFirst :
                  /\ xFirst[i].content # <<>>
                  /\ xFirst[i].url # NoUrl
            /\ Len(xFirst) = Cardinality(kept)
            /\ \A i \in DOMAIN xFirst :
                  \E k \in DOMAIN frags[NthOf(kept, i)] :
                      /\ frags[NthOf(kept, i)][k].kind = "a"
                      /\ Href(frags[NthOf(kept, i)][k]) = xFirst[i].url

(* a digest of two fragments has been extracted: the first has a permalink
   and no text and is dropped, the second is kept *)
C21_Witness ==
    /\ xStep = 1
    /\ Len(xDoc.articles) = 2
    /\ HasPermalink(xDoc.articles[1])
    /\ ~HasText(xDoc.articles[1])
    /\ Len(xFirst) = 1
    /\ xFirst[1].url.num = 1

(* C22, as claimed: extracting the same digest again yields the same sequence
   of posts, all field values included. *)
C22_ExtractionIdempotent == xStep = 2 => xSecond = xFirst

(* C22, amended: extracting the same digest again yields as many posts, in the
   same document order, with the same author, handle, content and url; a
   digest that carries a publication date gives every post that date both
   times, a digest without one gives the posts of each extraction the clock
   reading of that extraction. *)
C22_ExtractionRepeatableUpToClock ==
    xStep = 2 =>
        /\ Len(xSecond) = Len(xFirst)
        /\ \A k \in DOMAIN xFirst :
              /\ xSecond[k].author = xFirst[k].author
              /\ xSecond[k].handle = xFirst[k].handle
              /\ xSecond[k].content = xFirst[k].content
              /\ xSecond[k].url = xFirst[k].url
              /\ xDoc.published_date.present =>
                    /\ xFirst[k].publishedAt = xDoc.published_date.value
                    /\ xSecond[k].publishedAt = xDoc.published_date.value
              /\ ~xDoc.published_date.present =>
                    /\ xFirst[k].publishedAt <= xSecond[k].publishedAt
                    /\ xSecond[k].publishedAt <= now

(* a digest without a publication date has been extracted twice, some time
   apart: two posts each time, with different dates *)
C22_Witness ==
    /\ xStep = 2
    /\ ~xDoc.published_date.present
    /\ Len(xFirst) = 2
    /\ Len(xSecond) = 2
    /\ xFirst[1].url # xFirst[2].url
    /\ xFirst[1].publishedAt < xSecond[1].publishedAt

(* C23: every extracted post has as id the number of the status in its url;
   the composite of handle and extraction time is the id of no extracted
   post. *)
C23_IdIsStatusNumber ==
    \A k \in DOMAIN xFirst :
        /\ xFirst[k].id = xFirst[k].url.num
        /\ \A handle \in Range(HandlePool), clock \in ClockValues :
              xFirst[k].id # FallbackId(handle, clock)

----------------------------------------------------------------------------
(* Termination (SpecLive) *)

(* C24: every external call is bounded: a classification call that gets no
   answer is in the end taken as failed and the run goes on, a digest fetch
   that gets no answer in the end fails the run, and so every run ends. *)
C24_EveryRunTerminates ==
    \A r \in Procs :
        /\ (pc[r] = "awaiting_answer") ~> (pc[r] # "awaiting_answer")
        /\ (pc[r] = "awaiting_digests") ~> (pc[r] \in Stopped)
        /\ (pc[r] \in Running) ~> (pc[r] \in Stopped)

----------------------------------------------------------------------------
(* The stages of a run (Spec) *)

(* the stage a position of main belongs to: 1 Fetching, 2 Extracting,
   3 Deduplicating, 4 Classifying (the whole batch loop), 5 Merging,
   6 the saveCache call that makes the run Persisted; 0 outside a run *)
StageOf(p) ==
    CASE p \in {"fetching", "awaiting_digests"} -> 1
      [] p = "extracting" -> 2
      [] p = "deduplicating" -> 3
      [] p \in {"classify_enter", "classify_batch", "awaiting_answer"} -> 4
      [] p = "merging" -> 5
      [] p = "saving" -> 6
      [] OTHER -> 0

(* C25: within one run the stages occur only in the order Fetching,
   Extracting, Deduplicating, Classifying, Merging, Persisted: a step of a
   running process stays in its stage or enters the next one, so no stage is
   entered twice or re-entered after a later one; a run starts in Fetching;
   and a process writes the store only from the saveCache call, which is
   entered only from Merging, after exactly one merge. *)
C25_StagesInOrder ==
    [][\A r \in Procs :
          /\ (pc[r] \in Running /\ pc'[r] \in Running) =>
                 StageOf(pc'[r]) \in {StageOf(pc[r]), StageOf(pc[r]) + 1}
          /\ (pc[r] \in Stopped /\ pc'[r] \in Running) => StageOf(pc'[r]) = 1
          /\ (StageOf(pc'[r]) = 6 /\ StageOf(pc[r]) # 6) =>
                 StageOf(pc[r]) = 5 /\ trace'[r].merges = 1
          /\ trace'[r].writes > trace[r].writes =>
                 pc[r] = "saving" /\ trace[r].merges = 1]_vars

(* a run went through every stage, the batch loop included, and has
   persisted *)
C25_Witness ==
    \E r \in Procs :
        /\ pc[r] = "done"
        /\ trace[r].calls > 0
        /\ trace[r].merges = 1
        /\ trace[r].writes = 1
        /\ trace[r].failedAt = ""

----------------------------------------------------------------------------
(* Overlapping runs (SpecOverlap) *)

(* C29: nothing keeps a second run from loading the store while a first one
   is under way, and a save replaces the file with what its own run holds:
   the store it loaded merged with the posts it classified.  So when two runs
   have both loaded before either saves, every post the earlier save stored
   that the later-saving run neither loaded nor classified is missing after
   the later save. *)
C29_LaterSaveReplacesEarlier ==
    [][\A r \in Procs :
          (pc[r] = "saving" /\ pc'[r] = "done") =>
              /\ file'.tweets = Recent(allTweets[r], now - MaxAge)
              /\ \A id \in IdsOf(file.tweets) :
                     id \notin IdsOf(existingTweets[r]) \cup IdsOf(classified[r])
                         => id \notin IdsOf(file'.tweets)]_vars

(* both runs loaded the same store before either saved and both saved; a post
   that one of them stored is no longer in the store *)
C29_Witness ==
    /\ \A r \in Procs :
           /\ pc[r] = "done"
           /\ trace[r].writes = 1
           /\ trace[r].failedAt = ""
           /\ trace[r].start = AbsentFile
    /\ file.exists /\ file.parses
    /\ \E id \in everStored : id \notin IdsOf(file.tweets)

(* C26: in each run the store is read exactly once, at the start and before
   the fetch: a run begins by taking the tweets of the file as it is then, and
   no later step of the run changes what it took, whatever becomes of the file
   meanwhile.  The store is written at most once per run, by the saveCache
   call that ends it, after every batch has been classified and after the
   merge; and the file changes only by such a write. *)
C26_ReadOnceWrittenOnceAtEnd ==
    [][/\ \A r \in Procs :
            /\ (pc[r] \in Stopped /\ pc'[r] \in Running) =>
                   /\ pc'[r] = "fetching"
                   /\ trace'[r].fetches = 0
                   /\ trace'[r].start = file
                   /\ existingTweets'[r] = LoadedTweets(file)
            /\ (pc[r] \in Running /\ pc'[r] \in Running) =>
                   /\ trace'[r].start = trace[r].start
                   /\ existingTweets'[r] = existingTweets[r]
                   /\ existingTweets[r] = LoadedTweets(trace[r].start)
            /\ trace'[r].writes > trace[r].writes =>
                   /\ pc[r] = "saving"
                   /\ pc'[r] \in Stopped
                   /\ trace[r].writes = 0
                   /\ trace'[r].writes = 1
                   /\ trace[r].merges = 1
                   /\ batchStart[r] >= Len(newTweets[r])
                   /\ Len(classified[r]) = Len(newTweets[r])
       /\ file' # file => \E r \in Procs : trace'[r].writes > trace[r].writes]_vars

(* a run is about to save, after its one merge, while the file is no longer
   the one it loaded: the run still holds what it read at its start *)
C26_Witness ==
    \E r \in Procs :
        /\ pc[r] = "saving"
        /\ trace[r].merges = 1
        /\ trace[r].writes = 0
        /\ LoadedTweets(file) # LoadedTweets(trace[r].start)
        /\ existingTweets[r] = LoadedTweets(trace[r].start)

(* the step of r completes a call of the batch loop that did not throw *)
BatchSucceeds(r) ==
    /\ pc[r] = "awaiting_answer"
    /\ trace'[r].calls = trace[r].calls + 1
    /\ trace'[r].thrown = trace[r].thrown

(* C27, as stated: the store is persisted wholesale after each successful
   classification batch, so the step that completes such a batch writes the
   file, and the file then holds the posts classified so far. *)
C27_PersistedAfterEachBatch ==
    [][\A r \in Procs :
          BatchSucceeds(r) =>
              /\ trace'[r].writes > trace[r].writes
              /\ IdsOf(classified'[r]) \subseteq IdsOf(file'.tweets)]_vars

(* C27, amended: no step of the batch loop touches the store, whether its
   call succeeded or threw; the store is persisted wholesale once, by the
   saveCache call after the last batch and the merge, and what is written is
   the retention window of the loaded posts merged with the posts of every
   batch of the run. *)
C27_PersistedOnceAfterAllBatches ==
    [][\A r \in Procs :
          /\ StageOf(pc[r]) = 4 =>
                 /\ file' = file
                 /\ trace'[r].writes = trace[r].writes
          /\ (pc[r] = "saving" /\ pc'[r] = "done") =>
                 /\ Len(classified[r]) = Len(newTweets[r])
                 /\ file'.tweets =
                        Recent(MergeTweets(existingTweets[r], classified[r]),
                               now - MaxAge)]_vars

(* a successful batch is behind the run and the file is still the one the
   run loaded, without the posts of the batch *)
C27_Witness ==
    \E r \in Procs :
        /\ pc[r] = "merging"
        /\ trace[r].calls > 0
        /\ trace[r].thrown = 0
        /\ trace[r].writes = 0
        /\ file = trace[r].start
        /\ ~(IdsOf(classified[r]) \subseteq IdsOf(file.tweets))

----------------------------------------------------------------------------
(* What a run submits to the classifier (Spec) *)

(* C28: in every run, each post submitted to the classifier has an id that is
   absent from the store loaded at the start of that run: the posts handed to
   classifyTweets are the parsed posts whose id the loaded store does not
   hold, in their order, and every batch sent is a slice of them. *)
C28_SubmittedAbsentFromLoadedStore ==
    \A r \in Procs :
        StageOf(pc[r]) = 4 =>
            /\ \A k \in DOMAIN newTweets[r] :
                   newTweets[r][k].id \notin IdsOf(LoadedTweets(trace[r].start))
            /\ newTweets[r] =
                   SelectSeq(parsedTweets[r],
                             LAMBDA t : t.id \notin IdsOf(LoadedTweets(trace[r].start)))
            /\ pc[r] = "awaiting_answer" =>
                   Range(BatchAt(newTweets[r], batchStart[r])) \subseteq Range(newTweets[r])

(* a batch is with the classifier in a run whose digests also held a post of
   the loaded store, which was filtered out *)
C28_Witness ==
    \E r \in Procs :
        /\ pc[r] = "awaiting_answer"
        /\ BatchAt(newTweets[r], batchStart[r]) # <<>>
        /\ Len(newTweets[r]) < Len(parsedTweets[r])
        /\ IdsOf(parsedTweets[r]) \cap IdsOf(LoadedTweets(trace[r].start)) # {}

(* the posts of a sequence that have the given id, in order *)
PostsWithId(s, id) == SelectSeq(s, LAMBDA t : t.id = id)

(* C30: the filter before classification is against the loaded store only.
   When a run has merged, every occurrence of an id that the loaded store did
   not hold has been submitted and classified, as many times as the digests
   held it; and the merged list has exactly one post for that id, which is
   the first of these occurrences in extraction order, with the publication
   time and the category of that occurrence. *)
C30_RepeatsSubmittedFirstKept ==
    \A r \in Procs :
        pc[r] = "saving" =>
            \A id \in IdsOf(parsedTweets[r]) \ IdsOf(existingTweets[r]) :
                /\ Len(PostsWithId(classified[r], id)) = Len(PostsWithId(parsedTweets[r], id))
                /\ \A k \in DOMAIN PostsWithId(classified[r], id) :
                       [PostsWithId(classified[r], id)[k] EXCEPT !.category = ""]
                           = PostsWithId(parsedTweets[r], id)[k]
                /\ PostsWithId(allTweets[r], id) = <<Head(PostsWithId(classified[r], id))>>

(* a never-seen id came twice in the digests of a run, from two digests with
   different dates, the two occurrences were given different categories, and
   the run has merged *)
C30_Witness ==
    \E r \in Procs :
        /\ pc[r] = "saving"
        /\ \E id \in IdsOf(classified[r]) :
               LET twice == PostsWithId(classified[r], id)
               IN  /\ Len(twice) = 2
                   /\ twice[1].category # twice[2].category
                   /\ twice[1].publishedAt # twice[2].publishedAt
                   /\ PostsWithId(allTweets[r], id) = <<twice[1]>>

====
